---- MODULE Spec2Model ----
(***************************************************************************)
(* The owner-portal server.  Its vendor-API access layer (src/server.js):  *)
(* the process-wide token cache (authToken, tokenExpires), getAuthToken,   *)
(* makeApiRequest with its status classification, the route handlers that  *)
(* fall back to the local sample data when the vendor call fails, request  *)
(* validation and the path of a forwarded error.  Its new-reservation      *)
(* webhook (src/unnamed/part_002) and its two login routes                 *)
(* (src/routes/auth.js, src/unnamed/part_000 with src/models/users.js).    *)
(* The user store and the session tokens (src/models/users.js,             *)
(* src/unnamed/part_004), the authenticated API router                     *)
(* (src/unnamed/part_001, part_002), and the server of src/index.js with   *)
(* its routes (src/unnamed/part_003) and its vendor client (src/api.js).   *)
(*                                                                         *)
(* Node runs the handlers on one event loop: a handler runs without        *)
(* interruption between two awaits.  The awaits of a vendor-backed request *)
(* are the token exchange (axios.post, server.js:66) and the vendor call   *)
(* (axios, server.js:113); those of the webhook and of a login are their   *)
(* database queries.  Each action below is the code between two awaits.    *)
(***************************************************************************)
EXTENDS Integers, Sequences, FiniteSets, TLC

\* ------------------------------------------------------------------ bounds
NumReqs == 2          \* request slots that can be in flight together
MaxCalls == 2         \* handler invocations in one behaviour
MaxTicks == 2         \* clock advances in one behaviour
MaxUserId == 2        \* the highest id createUser assigns in one behaviour

\* --------------------------------------------------------------- constants
Null == 0                     \* authToken = null (server.js:46)
MsPerSecond == 1000           \* expires_in * 1000 (server.js:77)
SafetyMarginMs == 300000      \* 5 * 60 * 1000 (server.js:77)

\* Clock advances (ms) the environment may make between two steps.
TickSteps == {2000, 299000}
\* expires_in values (seconds) the vendor may report: with 599 the stored
\* expiry is met exactly by an advance of 299 s.
Lifetimes == {599, 600}

Reqs == 1..NumReqs

\* --------------------------------------------------- vendor HTTP outcomes
\* What axios reports for the vendor call (server.js:113-123): a 2xx body,
\* an error carrying a response (error.response), an error with a request
\* but no response (error.request: the 30 s timeout, or a connection
\* failure), or an error raised while setting the request up.
ErrStatuses == {400, 401, 403, 404, 429, 500, 501, 502, 503, 504}
VendorMsgs == {"", "vendor says no"}  \* error.response.data?.message; "" is falsy

VendorOutcomes ==
    {[kind |-> "ok", status |-> 200, msg |-> ""]}
    \cup {[kind |-> "http", status |-> s, msg |-> m] : s \in ErrStatuses, m \in VendorMsgs}
    \cup {[kind |-> k, status |-> 0, msg |-> ""] : k \in {"timeout", "noresp", "setup"}}

NoOutcome == [kind |-> "none", status |-> 0, msg |-> ""]

\* The error object axios rejects with, as far as the catch block reads it.
AxiosError(o) ==
    [hasResponse |-> o.kind = "http",
     hasRequest  |-> o.kind \in {"http", "timeout", "noresp"},
     status      |-> o.status,
     dataMessage |-> o.msg,
     text        |-> CASE o.kind = "timeout" -> "timeout of 30000ms exceeded"
                       [] o.kind = "noresp"  -> "connect ECONNREFUSED"
                       [] o.kind = "setup"   -> "Invalid URL"
                       [] OTHER              -> "Request failed"]

\* ------------------------------------------------------------------ errors
\* An Error as the handlers see it: its message text, with the endpoint or
\* the status the template literal splices in.
NoEndpoint == <<"", "">>
Err(text, endpoint, status) == [text |-> text, endpoint |-> endpoint, status |-> status]
NoError == Err("", NoEndpoint, 0)

AuthExchangeFailed == Err("Failed to authenticate with Hostaway API", NoEndpoint, 0)
AuthFailed401 == Err("Authentication failed. Please try again.", NoEndpoint, 0)
NotFoundErr(endpoint) == Err("Resource not found: ", endpoint, 0)
RateLimited == Err("API rate limit exceeded. Please try again later.", NoEndpoint, 0)
Unavailable == Err("Hostaway API is currently unavailable. Please try again later.", NoEndpoint, 0)
VendorSaid(m) == Err(m, NoEndpoint, 0)
GenericFailed(status) == Err("API request failed with status ", NoEndpoint, status)
NoResponseErr == Err("No response received from API. Please check your network connection.", NoEndpoint, 0)

\* ------------------------------------------------------------- token cache
\* The validity test with the comparison turned around.
TokenValidFlipped(t, expires, time) == t # Null /\ expires < time

\* getAuthToken's validity test: authToken && tokenExpires > Date.now()
TokenValid(t, expires, time) == t # Null /\ expires > time

\* The expiry without the safety margin.
ExpiryNoMargin(time, lifetime) == time + lifetime * MsPerSecond

\* tokenExpires = Date.now() + expires_in * 1000 - 5 * 60 * 1000
ExpiryOf(time, lifetime) == time + lifetime * MsPerSecond - SafetyMarginMs

\* The invalidation attached to the wrong case label.
InvalidatesOn403(e) == e.hasResponse /\ e.status = 403

\* The 401 case of the switch is the only one that clears the cache.
Invalidates(e) == e.hasResponse /\ e.status = 401

\* The classification with every 5xx status taken as "unavailable".
MapErrorAny5xx(e, endpoint) ==
    IF e.hasResponse
    THEN CASE e.status = 401 -> AuthFailed401
           [] e.status = 404 -> NotFoundErr(endpoint)
           [] e.status = 429 -> RateLimited
           [] e.status >= 500 -> Unavailable
           [] OTHER -> IF e.dataMessage # "" THEN VendorSaid(e.dataMessage)
                       ELSE GenericFailed(e.status)
    ELSE IF e.hasRequest
         THEN NoResponseErr
         ELSE Err(e.text, NoEndpoint, 0)

\* The catch block of makeApiRequest: the error it throws for the error it
\* caught.  An error without response and without request is rethrown as is.
MapError(e, endpoint) ==
    IF e.hasResponse
    THEN CASE e.status = 401 -> AuthFailed401
           [] e.status = 404 -> NotFoundErr(endpoint)
           [] e.status = 429 -> RateLimited
           [] e.status \in {500, 502, 503, 504} -> Unavailable
           [] OTHER -> IF e.dataMessage # "" THEN VendorSaid(e.dataMessage)
                       ELSE GenericFailed(e.status)
    ELSE IF e.hasRequest
         THEN NoResponseErr
         ELSE Err(e.text, NoEndpoint, 0)

\* -------------------------------------------------------------- sample data
\* require('./sample-data') (server.js:181): the bundled sample module.  A
\* string of the data is kept as the tuple of its characters or, for an
\* address, of its comma-separated segments, so that split, toLowerCase
\* and includes can be computed.
SampleProperties ==
    << [id |-> "p1", name |-> "Beach House", address |-> <<"1 Ocean Dr", "Miami", "USA">>],
       [id |-> "p2", name |-> "Cabin",       address |-> <<"5 Pine Rd">>] >>

SampleReservations ==
    << [id |-> "r1", propertyId |-> "p1", guestName |-> <<"A", "n", "n">>,
        checkIn |-> "2024-01-01", checkOut |-> "2024-01-04",
        pricePerNight |-> 100, cleaningFee |-> 50, amenities |-> 20, extraFees |-> 10,
        bookingSource |-> "airbnb", status |-> "confirmed"],
       [id |-> "r2", propertyId |-> "p2", guestName |-> <<"B", "o">>,
        checkIn |-> "2024-01-10", checkOut |-> "2024-01-08T12:00",
        pricePerNight |-> 80, cleaningFee |-> 30, amenities |-> 0, extraFees |-> 5,
        bookingSource |-> "direct", status |-> "pending"],
       [id |-> "r3", propertyId |-> "p1", guestName |-> <<"B", "o", "b">>,
        checkIn |-> "2024-01-04", checkOut |-> "2024-01-05",
        pricePerNight |-> 60, cleaningFee |-> 0, amenities |-> 0, extraFees |-> 0,
        bookingSource |-> "direct", status |-> "confirmed"],
       [id |-> "r4", propertyId |-> "p2", guestName |-> <<"a", "n", "n", "a">>,
        checkIn |-> "2024-01-05", checkOut |-> "2024-01-10",
        pricePerNight |-> 70, cleaningFee |-> 25, amenities |-> 5, extraFees |-> 0,
        bookingSource |-> "airbnb", status |-> "pending"] >>

\* What the fallback's own try block throws.
ModuleNotFound == Err("Cannot find module './sample-data'", NoEndpoint, 0)
NightsNotDefined == Err("calculateNights is not defined", NoEndpoint, 0)

\* ------------------------------------------------------- dates and strings
MsPerDay == 86400000          \* 1000 * 60 * 60 * 24 (server.js:242)

\* new Date(s).getTime(), in ms counted from 2024-01-01T00:00Z; a date-only
\* string is UTC midnight.  NaN (an unparseable string) is NoTime.
NoTime == -1
DateStrings == {"2024-01-01", "2024-01-04", "2024-01-05", "2024-01-08T12:00", "2024-01-10"}
ParseDate(s) ==
    CASE s = "2024-01-01"       -> 0
      [] s = "2024-01-04"       -> 3 * MsPerDay
      [] s = "2024-01-05"       -> 4 * MsPerDay
      [] s = "2024-01-08T12:00" -> 7 * MsPerDay + MsPerDay \div 2
      [] s = "2024-01-10"       -> 9 * MsPerDay
      [] OTHER                  -> NoTime

Abs(x) == IF x < 0 THEN -x ELSE x
CeilDiv(a, b) == IF a % b = 0 THEN a \div b ELSE a \div b + 1

\* The night count rounded down.
calculateNightsFloor(checkIn, checkOut) ==
    Abs(ParseDate(checkOut) - ParseDate(checkIn)) \div MsPerDay

\* calculateNights (server.js:238-243)
calculateNights(checkIn, checkOut) ==
    CeilDiv(Abs(ParseDate(checkOut) - ParseDate(checkIn)), MsPerDay)

\* String.prototype.toLowerCase on the characters the data uses.
LowerChar(c) ==
    CASE c = "A" -> "a" [] c = "B" -> "b" [] c = "N" -> "n" [] c = "O" -> "o" [] OTHER -> c
toLowerCase(str) == [i \in 1..Len(str) |-> LowerChar(str[i])]

\* String.prototype.includes
includes(str, sub) ==
    \E i \in 0..(Len(str) - Len(sub)) : SubSeq(str, i + 1, i + Len(sub)) = sub

\* parseInt on the query strings the model uses; NaN is [nan |-> TRUE].
NaN == [nan |-> TRUE, val |-> 0]
Num(n) == [nan |-> FALSE, val |-> n]
parseInt(s) ==
    CASE s = "0"  -> Num(0)
      [] s = "1"  -> Num(1)
      [] s = "2"  -> Num(2)
      [] s = "10" -> Num(10)
      [] s = "-1" -> Num(0 - 1)
      [] OTHER    -> NaN
\* parseInt(x) || d: NaN and 0 are falsy
OrDefault(p, d) == IF p.nan \/ p.val = 0 THEN d ELSE p.val

\* Array.prototype.slice(start, end) with its clamping of both indices.
ClampIndex(i, len) ==
    IF i < 0 THEN (IF len + i < 0 THEN 0 ELSE len + i)
    ELSE (IF i > len THEN len ELSE i)
slice(items, start, end) ==
    LET s == ClampIndex(start, Len(items))
        e == ClampIndex(end, Len(items))
    IN  IF s < e THEN SubSeq(items, s + 1, e) ELSE << >>

\* The arrival filter leaving out the start date itself.
DateGeStrict(a, b) == a # NoTime /\ b # NoTime /\ a > b

\* a >= b and a <= b on Date values: a comparison with NaN is false
DateGe(a, b) == a # NoTime /\ b # NoTime /\ a >= b
DateLe(a, b) == a # NoTime /\ b # NoTime /\ a <= b

\* ---------------------------------------------------------------- requests
\* req.query as the fallback reads it; an absent parameter and an empty one
\* are both falsy, and both are "" here.  search is a tuple of characters.
EmptyQuery ==
    [listingId |-> "", arrivalStartDate |-> "", departureEndDate |-> "",
     status |-> "", search |-> << >>, limit |-> "", offset |-> ""]
Queries ==
    {EmptyQuery,
     [EmptyQuery EXCEPT !.listingId = "p1", !.limit = "1"],
     [EmptyQuery EXCEPT !.search = <<"O">>, !.arrivalStartDate = "2024-01-05", !.offset = "1"]}

ListingIds == {"p1", "zz"}          \* req.params.id for /api/listings/:id
ReservationIds == {"r1", "zz"}      \* req.params.id for /api/reservations/:id

\* req.query of GET /api/calendar (server.js:434); "" is an absent parameter.
CalendarQueries ==
    {[listingId |-> "p1", startDate |-> "2024-01-01", endDate |-> "2024-01-04"],
     [listingId |-> "",   startDate |-> "2024-01-01", endDate |-> "2024-01-04"],
     [listingId |-> "p1", startDate |-> "",           endDate |-> "2024-01-04"],
     [listingId |-> "p1", startDate |-> "2024-01-01", endDate |-> ""]}

\* fromDate and toDate of the body of POST /api/finance/report/consolidated
\* (server.js:285-290); "" is an absent field.
ReportBodies ==
    {[fromDate |-> "2024-01-01", toDate |-> "2024-01-04"],
     [fromDate |-> "",           toDate |-> ""],
     [fromDate |-> "not-a-date", toDate |-> "2024-01-04"],
     [fromDate |-> "2024-01-01", toDate |-> "not-a-date"],
     [fromDate |-> "",           toDate |-> "not-a-date"]}

\* The requests the handlers of server.js are driven with.
Inputs ==
    {[route |-> "listings", id |-> "", query |-> EmptyQuery]}
    \cup {[route |-> "listingById", id |-> i, query |-> EmptyQuery] : i \in ListingIds}
    \cup {[route |-> "reservations", id |-> "", query |-> q] : q \in Queries}
    \cup {[route |-> "reservationById", id |-> i, query |-> EmptyQuery] : i \in ReservationIds}
    \cup {[route |-> "calendar", id |-> "", query |-> q] : q \in CalendarQueries}
    \cup {[route |-> "report", id |-> "", query |-> EmptyQuery, body |-> b] : b \in ReportBodies}
NoInput == [route |-> "", id |-> "", query |-> EmptyQuery]

\* The endpoint each handler passes to makeApiRequest: `/listings/${id}` is
\* the pair of its prefix and the id.
EndpointOf(in) ==
    CASE in.route = "listings"        -> <<"/listings", "">>
      [] in.route = "listingById"     -> <<"/listings/", in.id>>
      [] in.route = "reservations"    -> <<"/reservations", "">>
      [] in.route = "reservationById" -> <<"/reservations/", in.id>>
      [] in.route = "calendar"        -> <<"/calendar", "">>
      [] in.route = "report"          -> <<"/finance/report/consolidated", "">>
      [] in.route = "portalListings"  -> <<"/listings", "">>

\* --------------------------------------------------------- fallback helpers
\* filterReservations (server.js:342-373)
filterReservations(reservations, query) ==
    LET f1 == IF query.listingId # ""
              THEN SelectSeq(reservations, LAMBDA r : r.listingId = query.listingId)
              ELSE reservations
        f2 == IF query.arrivalStartDate # ""
              THEN SelectSeq(f1, LAMBDA r :
                       DateGe(ParseDate(r.checkInDate), ParseDate(query.arrivalStartDate)))
              ELSE f1
        f3 == IF query.departureEndDate # ""
              THEN SelectSeq(f2, LAMBDA r :
                       DateLe(ParseDate(r.checkOutDate), ParseDate(query.departureEndDate)))
              ELSE f2
        f4 == IF query.status # ""
              THEN SelectSeq(f3, LAMBDA r : r.status = query.status)
              ELSE f3
        f5 == IF query.search # << >>
              THEN SelectSeq(f4, LAMBDA r :
                       includes(toLowerCase(r.guestName), toLowerCase(query.search)))
              ELSE f4
    IN  f5

\* The page reporting more results when it ends exactly at the last one.
paginateResultsHasMoreLe(items, query) ==
    LET limit  == OrDefault(parseInt(query.limit), 10)
        offset == OrDefault(parseInt(query.offset), 0)
    IN  [items |-> slice(items, offset, offset + limit),
         meta  |-> [total |-> Len(items), limit |-> limit, offset |-> offset,
                    hasMore |-> offset + limit <= Len(items)]]

\* paginateResults (server.js:376-389)
NoMeta == [total |-> 0, limit |-> 0, offset |-> 0, hasMore |-> FALSE]
paginateResults(items, query) ==
    LET limit  == OrDefault(parseInt(query.limit), 10)
        offset == OrDefault(parseInt(query.offset), 0)
    IN  [items |-> slice(items, offset, offset + limit),
         meta  |-> [total |-> Len(items), limit |-> limit, offset |-> offset,
                    hasMore |-> offset + limit < Len(items)]]

\* The reservation record both reservation handlers build from a sample row.
ToApiReservation(res, nights) ==
    [id |-> res.id, listingId |-> res.propertyId, guestName |-> res.guestName,
     checkInDate |-> res.checkIn, checkOutDate |-> res.checkOut,
     basePrice |-> res.pricePerNight, cleaningFee |-> res.cleaningFee,
     amenitiesFee |-> res.amenities, extraFees |-> res.extraFees,
     totalPrice |-> res.pricePerNight * nights
                    + res.cleaningFee + res.amenities + res.extraFees,
     source |-> res.bookingSource, status |-> res.status]

\* prop.address?.split(',')[n]?.trim() || ''  (segments are kept trimmed)
Segment(address, n) == IF n + 1 <= Len(address) THEN address[n + 1] ELSE ""

\* The listing record the listings fallback builds from a sample property.
ToApiListing(prop) ==
    [id |-> prop.id, name |-> prop.name,
     address |-> [full |-> prop.address,
                  city |-> Segment(prop.address, 1),
                  country |-> Segment(prop.address, 2)]]

Find(s, id) == SelectSeq(s, LAMBDA x : x.id = id)    \* find: the first match, if any

\* ------------------------------------------------------------------- state
VARIABLES
    authToken,        \* server.js:46; Null or the token of an exchange
    tokenExpires,     \* server.js:47; ms
    now,              \* Date.now(), ms since the server started
    sampleLoads,      \* whether require('./sample-data') succeeds
    nodeEnv,          \* process.env.NODE_ENV
    usersCache,       \* models/users.js:12; the content of users.json
    sessions,         \* the session tokens the login route has signed
    apiRouter,        \* which of the two files of the API router is mounted
    req,              \* per request slot: where its handler stands, and its result
    calls,            \* handler invocations so far
    ticks,            \* clock advances so far
    exchangesIssued,  \* token-exchange requests sent so far
    lastGrant,        \* the exchange response processed last: token, time, expires_in
    disturbances      \* what has happened so far besides sequential calls on a fresh
                      \* token: "overlap" (a getAuthToken call while another one's
                      \* exchange was in flight), "late" (a call at or after the
                      \* stored expiry), "exchangeFailed", "401"

\* The state of the owner portal: the user store, the tokens signed and
\* the router mounted.
portal == <<usersCache, sessions, apiRouter>>

vars == <<authToken, tokenExpires, now, sampleLoads, nodeEnv, portal, req, calls, ticks,
          exchangesIssued, lastGrant, disturbances>>

NoResponse == [status |-> 0, kind |-> "none", items |-> << >>, meta |-> NoMeta]
Response(status, kind, items, meta) ==
    [status |-> status, kind |-> kind, items |-> items, meta |-> meta]

\* What Express answers for an error forwarded with next(error): the status,
\* the handler that wrote it, the message of the body and, for the central
\* middleware, the details of its envelope.
NoErrorResponse == [status |-> 0, via |-> "none", message |-> NoError, details |-> NoError]

\* bcrypt and sha256 as injective constructors: a hash equals another only
\* if it was made from the same text.
bcryptHash(password) == <<"bcrypt", password>>
bcryptCompare(password, hash) == hash = bcryptHash(password)
Sha256(text) == <<"sha256", text>>

\* The stored users: a row of mobileUsers (models/MobileUser.js) and an
\* entry of users.json (models/users.js), both of the password "pw1".
MobileUsers ==
    << [id |-> 1, email |-> "ann@x.io", password |-> bcryptHash("pw1"), hostawayId |-> 7] >>
JsonUsers ==
    << [id |-> 1, email |-> "ann@x.io", passwordHash |-> Sha256(<<"pw1", "s1">>),
        passwordSalt |-> "s1", userId |-> 7, role |-> "owner"] >>

\* A slot no handler is using.
IdleReq ==
    [pc |-> "idle", in |-> NoInput, tok |-> Null, nExch |-> 0, nSend |-> 0,
     vendor |-> NoOutcome, err |-> NoError, fallback |-> FALSE,
     res |-> NoResponse, fwd |-> NoError, errRes |-> NoErrorResponse,
     lookups |-> 0, lookup |-> "none", dispatches |-> 0, lateSends |-> 0,
     layer |-> "none", user |-> << >>, url |-> << >>]

NoGrant == [tok |-> Null, at |-> 0, life |-> 0]

\* Values of NODE_ENV the server is run with.
NodeEnvs == {"development", "production"}

\* The server after start-up, with NumReqs request slots and the sample
\* module loading or not.
Init ==
    /\ authToken = Null
    /\ tokenExpires = 0
    /\ now = 0
    /\ sampleLoads \in BOOLEAN
    /\ nodeEnv = "production"
    /\ usersCache = JsonUsers
    /\ sessions = {}
    /\ apiRouter = "part_001"
    /\ req = [r \in Reqs |-> IdleReq]
    /\ calls = 0
    /\ ticks = 0
    /\ exchangesIssued = 0
    /\ lastGrant = NoGrant
    /\ disturbances = {}

\* -------------------------------------------------------------- error path
\* The line of server.js at which each middleware and route is registered.
\* Express runs the layers in this order, and hands an error forwarded with
\* next(error) to the error-handling middleware registered after the layer
\* that forwarded it.
RegisteredAt(layer) ==
    CASE layer = "errorMiddleware" -> 35
      [] layer = "listings"        -> 171
      [] layer = "listingById"     -> 203
      [] layer = "reservations"    -> 227
      [] layer = "report"          -> 282
      [] layer = "reservationById" -> 392
      [] layer = "calendar"        -> 433
      [] layer = "health"          -> 452
      [] layer = "notFound"        -> 469

\* The central error middleware (server.js:35-43): 500, a fixed message,
\* and err.message as details in development only.
ErrorMiddleware(err, env) ==
    [status |-> 500, via |-> "errorMiddleware",
     message |-> Err("An unexpected server error occurred", NoEndpoint, 0),
     details |-> IF env = "development" THEN err ELSE NoError]

\* Express's default handler, which answers an error that no error-handling
\* middleware took: 500 for an Error without status, with the status text
\* as body in production and the error's stack (its message first) otherwise.
DefaultHandler(err, env) ==
    [status |-> 500, via |-> "defaultHandler",
     message |-> IF env = "production" THEN Err("Internal Server Error", NoEndpoint, 0) ELSE err,
     details |-> NoError]

\* The answer to next(err) called by the handler of a route.
ErrorPath(route, err, env) ==
    IF RegisteredAt("errorMiddleware") > RegisteredAt(route)
    THEN ErrorMiddleware(err, env)
    ELSE DefaultHandler(err, env)

\* -------------------------------------------------------------- validation
\* What a handler does with the request before it calls makeApiRequest: it
\* goes on, sends a response, or throws.
Accepted == [ok |-> TRUE, res |-> NoResponse, thrown |-> NoError]
Rejected(res) == [ok |-> FALSE, res |-> res, thrown |-> NoError]
Thrown(e) == [ok |-> FALSE, res |-> NoResponse, thrown |-> e]

\* The first lines of app.get('/api/calendar') (server.js:434-440)
CalendarCheck(query) ==
    IF query.listingId = "" \/ query.startDate = "" \/ query.endDate = ""
    THEN Rejected(Response(400, "Missing required parameters: listingId, startDate, endDate",
                           << >>, NoMeta))
    ELSE Accepted

\* date.toISOString().split('T')[0] for the dates of the model
IsoDay(ms) ==
    CASE ms \div MsPerDay = 0 -> "2024-01-01"
      [] ms \div MsPerDay = 3 -> "2024-01-04"
      [] ms \div MsPerDay = 4 -> "2024-01-05"
      [] ms \div MsPerDay = 7 -> "2024-01-08"
      [] ms \div MsPerDay = 9 -> "2024-01-10"

InvalidDate(dateInput) == Err("Invalid date input: ", <<dateInput, "">>, 0)

\* formatDate (server.js:311-320): null for a falsy input, an Error for an
\* unparseable one, and the day of the date otherwise.
formatDate(dateInput) ==
    IF dateInput = "" THEN [threw |-> FALSE, thrown |-> NoError, value |-> ""]
    ELSE IF ParseDate(dateInput) = NoTime
         THEN [threw |-> TRUE, thrown |-> InvalidDate(dateInput), value |-> ""]
         ELSE [threw |-> FALSE, thrown |-> NoError, value |-> IsoDay(ParseDate(dateInput))]

\* The request body app.post('/api/finance/report/consolidated') prepares
\* (server.js:293-325): fromDate is formatted before toDate, and the first
\* formatDate that throws ends the try block.
ReportCheck(body) ==
    IF body.fromDate # "" /\ formatDate(body.fromDate).threw
    THEN Thrown(formatDate(body.fromDate).thrown)
    ELSE IF body.toDate # "" /\ formatDate(body.toDate).threw
         THEN Thrown(formatDate(body.toDate).thrown)
         ELSE Accepted

\* The handler calling makeApiRequest first and looking at the request
\* afterwards.
BeforeVendorNothing(in) == Accepted

\* The code of a handler that runs before its makeApiRequest call.
BeforeVendor(in) ==
    CASE in.route = "calendar" -> CalendarCheck(in.query)
      [] in.route = "report"   -> ReportCheck(in.body)
      [] OTHER                 -> Accepted

\* ---------------------------------------------------------------- fallback
\* The inner try block of each handler's catch: the response it sends, or
\* the error it throws.
Sent(res) == [threw |-> FALSE, thrown |-> NoError, res |-> res]
Threw(e) == [threw |-> TRUE, thrown |-> e, res |-> NoResponse]

\* The listings fallback requiring a module path that does not resolve.
ListingsFallbackWrongPath(loads) == Threw(ModuleNotFound)

\* app.get('/api/listings') fallback (server.js:179-195)
ListingsFallback(loads) ==
    IF ~loads THEN Threw(ModuleNotFound)
    ELSE Sent(Response(200, "sampleListings",
                       [i \in 1..Len(SampleProperties) |-> ToApiListing(SampleProperties[i])],
                       NoMeta))

\* app.get('/api/listings/:id') fallback (server.js:210-219)
ListingByIdFallback(loads, id) ==
    IF ~loads THEN Threw(ModuleNotFound)
    ELSE LET found == Find(SampleProperties, id)
         IN  IF found # << >>
             THEN Sent(Response(200, "sampleListing", <<Head(found)>>, NoMeta))
             ELSE Sent(Response(404, "listingNotFound", << >>, NoMeta))

\* app.get('/api/reservations') fallback (server.js:233-271)
ReservationsFallback(loads, query) ==
    IF ~loads THEN Threw(ModuleNotFound)
    ELSE LET sampleReservations ==
                 [i \in 1..Len(SampleReservations) |->
                     LET res == SampleReservations[i]
                     IN  ToApiReservation(res, calculateNights(res.checkIn, res.checkOut))]
             paginatedData == paginateResults(filterReservations(sampleReservations, query), query)
         IN  Sent(Response(200, "sampleReservations", paginatedData.items, paginatedData.meta))

\* app.get('/api/reservations/:id') fallback (server.js:398-425).  The
\* calculateNights this handler calls is a const of the reservations
\* handler's try block and is not in scope here: the call throws a
\* ReferenceError, which the handler's own catch receives.
ReservationByIdFallback(loads, id) ==
    IF ~loads THEN Threw(ModuleNotFound)
    ELSE LET found == Find(SampleReservations, id)
         IN  IF found # << >>
             THEN Threw(NightsNotDefined)
             ELSE Sent(Response(404, "reservationNotFound", << >>, NoMeta))

\* Every catch block taken to end in a fallback.
HasFallbackAlways(route) == TRUE

\* The handlers with an inner try block over the sample data; the calendar
\* and report handlers have none (server.js:335-337, 444-447).
HasFallback(route) ==
    route \in {"listings", "listingById", "reservations", "reservationById",
               "portalListings"}
NoFallback == [threw |-> FALSE, thrown |-> NoError, res |-> NoResponse]

Fallback(in, loads) ==
    CASE in.route = "listings"        -> ListingsFallback(loads)
      [] in.route = "listingById"     -> ListingByIdFallback(loads, in.id)
      [] in.route = "reservations"    -> ReservationsFallback(loads, in.query)
      [] in.route = "reservationById" -> ReservationByIdFallback(loads, in.id)
      [] in.route = "portalListings"  -> ListingsFallback(loads)
      [] OTHER                        -> NoFallback

\* The inner catch forwarding its own error.
ForwardedFallbackError(error, fallbackError) == fallbackError

\* catch (fallbackError) { next(error); }: the error handed to next
Forwarded(error, fallbackError) == error

\* The handler's catch (error) block: run the fallback, if the handler has
\* one, for the error makeApiRequest raised, and either respond or forward;
\* Express answers a forwarded error.
Caught(r, error, outcome) ==
    LET route == req[r].in.route
        fb  == Fallback(req[r].in, sampleLoads)
        fwd == IF ~HasFallback(route) THEN error
               ELSE IF fb.threw THEN Forwarded(error, fb.thrown) ELSE NoError
    IN  [req[r] EXCEPT !.pc = "done", !.tok = Null, !.vendor = outcome,
                       !.err = error, !.fallback = HasFallback(route),
                       !.res = fb.res,
                       !.fwd = fwd,
                       !.errRes = IF fwd # NoError THEN ErrorPath(route, fwd, nodeEnv)
                                  ELSE NoErrorResponse]

\* ----------------------------------------------------------------- actions
Slots == DOMAIN req
OtherExchanging(r) == \E q \in Slots \ {r} : req[q].pc = "exchanging"

\* getAuthToken dropping a token it finds expired before it exchanges, the
\* stored expiry left in place.
StartDropsExpired(r, in) ==
    /\ BeforeVendor(in).ok
    /\ calls < MaxCalls
    /\ req[r].pc \in {"idle", "done"}
    /\ \A q \in Slots : q < r => req[q].pc \notin {"idle", "done"}
    /\ calls' = calls + 1
    /\ IF TokenValid(authToken, tokenExpires, now)
       THEN /\ req' = [req EXCEPT ![r] =
                          [IdleReq EXCEPT !.pc = "sent", !.in = in, !.tok = authToken, !.nSend = 1]]
            /\ exchangesIssued' = exchangesIssued
            /\ authToken' = authToken
       ELSE /\ req' = [req EXCEPT ![r] =
                          [IdleReq EXCEPT !.pc = "exchanging", !.in = in, !.nExch = 1]]
            /\ exchangesIssued' = exchangesIssued + 1
            /\ authToken' = Null
    /\ disturbances' = disturbances
                        \cup (IF OtherExchanging(r) THEN {"overlap"} ELSE {})
                        \cup (IF authToken # Null /\ now >= tokenExpires THEN {"late"} ELSE {})
    /\ UNCHANGED <<tokenExpires, now, sampleLoads, nodeEnv, portal, ticks, lastGrant>>

\* A request arrives: the handler calls makeApiRequest, which calls
\* getAuthToken (server.js:50-54, 102).  With a valid cached token the vendor
\* request goes out with it (server.js:113); otherwise the exchange is sent
\* (server.js:66).  Slots are interchangeable: the request takes the first
\* slot that no handler is running in.
Start(r, in) ==
    /\ BeforeVendor(in).ok
    /\ calls < MaxCalls
    /\ req[r].pc \in {"idle", "done"}
    /\ \A q \in Slots : q < r => req[q].pc \notin {"idle", "done"}
    /\ calls' = calls + 1
    /\ IF TokenValid(authToken, tokenExpires, now)
       THEN /\ req' = [req EXCEPT ![r] =
                          [IdleReq EXCEPT !.pc = "sent", !.in = in, !.tok = authToken, !.nSend = 1]]
            /\ exchangesIssued' = exchangesIssued
       ELSE /\ req' = [req EXCEPT ![r] =
                          [IdleReq EXCEPT !.pc = "exchanging", !.in = in, !.nExch = 1]]
            /\ exchangesIssued' = exchangesIssued + 1
    /\ disturbances' = disturbances
                        \cup (IF OtherExchanging(r) THEN {"overlap"} ELSE {})
                        \cup (IF authToken # Null /\ now >= tokenExpires THEN {"late"} ELSE {})
    /\ UNCHANGED <<authToken, tokenExpires, now, sampleLoads, nodeEnv, portal, ticks, lastGrant>>

\* A request arrives that its handler ends before makeApiRequest: the
\* calendar handler answers 400 (server.js:436-440), the report handler's
\* formatDate throws into the catch that forwards the error (server.js:335-337).
Reject(r, in) ==
    /\ ~BeforeVendor(in).ok
    /\ calls < MaxCalls
    /\ req[r].pc \in {"idle", "done"}
    /\ \A q \in Slots : q < r => req[q].pc \notin {"idle", "done"}
    /\ calls' = calls + 1
    /\ LET v == BeforeVendor(in)
       IN  req' = [req EXCEPT ![r] =
                      [IdleReq EXCEPT !.pc = "done", !.in = in,
                                      !.res = v.res, !.fwd = v.thrown,
                                      !.errRes = IF v.thrown # NoError
                                                 THEN ErrorPath(in.route, v.thrown, nodeEnv)
                                                 ELSE NoErrorResponse]]
    /\ UNCHANGED <<authToken, tokenExpires, now, sampleLoads, nodeEnv, portal, ticks,
                   exchangesIssued, lastGrant, disturbances>>

\* The exchange storing its response only when no token is cached.
ExchangeOkKeepsFirst(r, lifetime) ==
    /\ req[r].pc = "exchanging"
    /\ IF authToken = Null
       THEN authToken' = lastGrant.tok + 1 /\ tokenExpires' = ExpiryOf(now, lifetime)
       ELSE UNCHANGED <<authToken, tokenExpires>>
    /\ lastGrant' = [tok |-> lastGrant.tok + 1, at |-> now, life |-> lifetime]
    /\ req' = [req EXCEPT ![r].pc = "sent", ![r].tok = authToken',
                          ![r].nSend = req[r].nSend + 1]
    /\ UNCHANGED <<now, sampleLoads, nodeEnv, portal, calls, ticks, exchangesIssued, disturbances>>

\* The exchange answers 2xx with a token and expires_in (server.js:72-79):
\* the cache is overwritten and makeApiRequest sends the vendor request with
\* the returned token (server.js:102-123).
ExchangeOk(r, lifetime) ==
    /\ req[r].pc = "exchanging"
    /\ authToken' = lastGrant.tok + 1
    /\ tokenExpires' = ExpiryOf(now, lifetime)
    /\ lastGrant' = [tok |-> authToken', at |-> now, life |-> lifetime]
    /\ req' = [req EXCEPT ![r].pc = "sent", ![r].tok = authToken',
                          ![r].nSend = req[r].nSend + 1]
    /\ UNCHANGED <<now, sampleLoads, nodeEnv, portal, calls, ticks, exchangesIssued, disturbances>>

\* The failing exchange resetting the cache in its catch block.
ExchangeFailClears(r) ==
    /\ req[r].pc = "exchanging"
    /\ LET thrown == [hasResponse |-> FALSE, hasRequest |-> FALSE, status |-> 0,
                      dataMessage |-> "", text |-> AuthExchangeFailed.text]
       IN  req' = [req EXCEPT ![r] = Caught(r, MapError(thrown, EndpointOf(req[r].in)), NoOutcome)]
    /\ authToken' = Null
    /\ tokenExpires' = 0
    /\ disturbances' = disturbances \cup {"exchangeFailed"}
    /\ UNCHANGED <<now, sampleLoads, nodeEnv, portal, calls, ticks, exchangesIssued, lastGrant>>

\* The exchange fails (server.js:80-88): getAuthToken throws, makeApiRequest's
\* catch finds neither response nor request on the error and rethrows it
\* (server.js:163-166), and the handler falls back.
ExchangeFail(r) ==
    /\ req[r].pc = "exchanging"
    /\ LET thrown == [hasResponse |-> FALSE, hasRequest |-> FALSE, status |-> 0,
                      dataMessage |-> "", text |-> AuthExchangeFailed.text]
       IN  req' = [req EXCEPT ![r] = Caught(r, MapError(thrown, EndpointOf(req[r].in)), NoOutcome)]
    /\ disturbances' = disturbances \cup {"exchangeFailed"}
    /\ UNCHANGED <<authToken, tokenExpires, now, sampleLoads, nodeEnv, portal, calls, ticks,
                   exchangesIssued, lastGrant>>

\* The vendor answers 2xx (server.js:127, 175): the body is passed through.
VendorOk(r) ==
    /\ req[r].pc = "sent"
    /\ req' = [req EXCEPT ![r].pc = "done", ![r].tok = Null,
                          ![r].vendor = [kind |-> "ok", status |-> 200, msg |-> ""],
                          ![r].res = Response(200, "vendor", << >>, NoMeta)]
    /\ UNCHANGED <<authToken, tokenExpires, now, sampleLoads, nodeEnv, portal, calls, ticks,
                   exchangesIssued, lastGrant, disturbances>>

\* The catch block retrying once after a 401: it clears the cache and runs
\* getAuthToken and the request again.
VendorFailRetries(r, o) ==
    /\ req[r].pc = "sent"
    /\ o.kind # "ok"
    /\ LET e == AxiosError(o)
       IN  IF Invalidates(e)
           THEN /\ authToken' = Null /\ tokenExpires' = 0
                /\ exchangesIssued' = exchangesIssued + 1
                /\ req' = [req EXCEPT ![r].pc = "exchanging", ![r].tok = Null,
                                      ![r].nExch = req[r].nExch + 1]
           ELSE /\ UNCHANGED <<authToken, tokenExpires, exchangesIssued>>
                /\ req' = [req EXCEPT ![r] = Caught(r, MapError(e, EndpointOf(req[r].in)), o)]
    /\ disturbances' = disturbances \cup (IF o.status = 401 THEN {"401"} ELSE {})
    /\ UNCHANGED <<now, sampleLoads, nodeEnv, portal, calls, ticks, lastGrant>>

\* The vendor call fails (server.js:128-167): the catch classifies the error,
\* clears the cache on 401, throws, and the handler falls back.
VendorFail(r, o) ==
    /\ req[r].pc = "sent"
    /\ o.kind # "ok"
    /\ LET e == AxiosError(o)
       IN  /\ IF Invalidates(e)
              THEN authToken' = Null /\ tokenExpires' = 0
              ELSE UNCHANGED <<authToken, tokenExpires>>
           /\ disturbances' = disturbances \cup (IF o.status = 401 THEN {"401"} ELSE {})
           /\ req' = [req EXCEPT ![r] = Caught(r, MapError(e, EndpointOf(req[r].in)), o)]
    /\ UNCHANGED <<now, sampleLoads, nodeEnv, portal, calls, ticks, exchangesIssued, lastGrant>>

\* ------------------------------------------------ new-reservation webhook
\* Values of the x-internal-source header; "" is a request without it.
SourceHeaders == {"", "securestay.ai", "SecureStay.ai", "hostaway.com"}
\* reservation.listingMapId of the body, and the listings that have rows in
\* the HostawayUser table.
ListingMapIds == {"p1", "zz"}
HostawayUsers == << [listingId |-> "p1", ha_userId |-> "u1"] >>
WebhookInputs ==
    {[route |-> "newReservation", id |-> "", query |-> EmptyQuery,
      source |-> h, listingMapId |-> l] : h \in SourceHeaders, l \in ListingMapIds}

\* The guard accepting any request that carries the header.
SourceAllowedAnyValue(source) == source # ""

\* source !== 'securestay.ai' (unnamed/part_002:1106), negated
SourceAllowed(source) == source = "securestay.ai"

\* router.post('/new-reservation') up to its first await (unnamed/part_002:
\* 1103-1111, 1205-1222): 403 for a wrong source, otherwise
\* processNewReservation issues the HostawayUser lookup.
NewReservation(r, in) ==
    /\ in.route = "newReservation"
    /\ calls < MaxCalls
    /\ req[r].pc \in {"idle", "done"}
    /\ \A q \in Slots : q < r => req[q].pc \notin {"idle", "done"}
    /\ calls' = calls + 1
    /\ req' = [req EXCEPT ![r] =
                  IF SourceAllowed(in.source)
                  THEN [IdleReq EXCEPT !.pc = "findUsers", !.in = in, !.lookups = 1]
                  ELSE [IdleReq EXCEPT !.pc = "done", !.in = in,
                                       !.res = Response(403, "Forbidden", << >>, NoMeta)]]
    /\ UNCHANGED <<authToken, tokenExpires, now, sampleLoads, nodeEnv, portal, ticks,
                   exchangesIssued, lastGrant, disturbances>>

\* hostawayUserRepo.find answers (unnamed/part_002:1222-1231, 1113-1123):
\* a failed query ends in the route's catch with 500, no user ends the
\* handling with 200, and otherwise sendNotificationToUser is called.
UsersLookedUp(r, ok) ==
    /\ req[r].pc = "findUsers"
    /\ LET hostawayUsers == SelectSeq(HostawayUsers,
                                      LAMBDA u : u.listingId = req[r].in.listingMapId)
       IN  req' = [req EXCEPT ![r] =
              IF ~ok
              THEN [@ EXCEPT !.pc = "done", !.lookup = "failed",
                             !.res = Response(500, "Something went wrong processing reservation",
                                              << >>, NoMeta)]
              ELSE IF Len(hostawayUsers) = 0
              THEN [@ EXCEPT !.pc = "done", !.lookup = "empty",
                             !.res = Response(200, "Handled new reservation for push notification",
                                              << >>, NoMeta)]
              ELSE [@ EXCEPT !.pc = "notify", !.lookup = "found", !.dispatches = 1]]
    /\ UNCHANGED <<authToken, tokenExpires, now, sampleLoads, nodeEnv, portal, calls, ticks,
                   exchangesIssued, lastGrant, disturbances>>

\* What sendNotificationToUser can meet (utils/notification.js:7-47): the
\* token query throwing, no token, a multicast that is sent, one that throws.
NotifyOutcomes == {"tokenQueryFailed", "noTokens", "sent", "sendFailed"}

\* sendNotificationToUser returns or throws (utils/notification.js:7-47,
\* unnamed/part_002:1113-1123): it swallows the error of the multicast, and
\* the error of its token query reaches the route's catch.
Notified(r, o) ==
    /\ req[r].pc = "notify"
    /\ req' = [req EXCEPT ![r].pc = "done",
                          ![r].res =
                              IF o = "tokenQueryFailed"
                              THEN Response(500, "Something went wrong processing reservation",
                                            << >>, NoMeta)
                              ELSE Response(200, "Handled new reservation for push notification",
                                            << >>, NoMeta)]
    /\ UNCHANGED <<authToken, tokenExpires, now, sampleLoads, nodeEnv, portal, calls, ticks,
                   exchangesIssued, lastGrant, disturbances>>

\* ------------------------------------------------------------------- login
\* POST /api/auth/login exists twice: routes/auth.js reads the mobileUsers
\* table and compares with bcrypt (route "login"), unnamed/part_000 asks
\* Users.authenticate of models/users.js (route "loginJson").
Emails == {"", "ann@x.io", "ANN@x.io", "who@x.io"}     \* "" is a missing field
Passwords == {"", "pw1", "bad"}
LoginInputs ==
    {[route |-> "login", id |-> "", query |-> EmptyQuery, email |-> e, password |-> p] :
        e \in Emails \ {"ANN@x.io"}, p \in Passwords}
    \cup {[route |-> "loginJson", id |-> "", query |-> EmptyQuery, email |-> e, password |-> p] :
        e \in Emails, p \in Passwords}

\* email.toLowerCase() on the addresses of the model
LowerEmail(e) == CASE e = "ANN@x.io" -> "ann@x.io" [] OTHER -> e

\* findByEmail (models/users.js:52-55): the matches, the first being the result
findByEmail(users, email) ==
    SelectSeq(users, LAMBDA u : LowerEmail(u.email) = LowerEmail(email))

\* verifyPassword (models/users.js:63-71), for a user that is not null
verifyPassword(user, password) ==
    /\ password # ""
    /\ Sha256(<<password, user.passwordSalt>>) = user.passwordHash

\* authenticate (models/users.js:79-90): the password check is commented
\* out, so the user found is returned whatever the password, and with no
\* user the destructuring of null throws a TypeError.  user is << >> for
\* null and <<u>> for a user.
authenticate(users, email, password) ==
    LET found == findByEmail(users, email)
    IN  IF found = << >>
        THEN [threw |-> TRUE, user |-> << >>]
        ELSE [threw |-> FALSE, user |-> found]

\* jwt.sign on the payload of the login route
SignedToken(userId, email) == [userId |-> userId, email |-> email]
LoginOk(user, email) ==
    Response(200, "userToken",
             <<[user |-> user.id, token |-> SignedToken(user.id, email)]>>, NoMeta)
LoginServerError == Response(500, "Server error occurred during login", << >>, NoMeta)

\* Both login routes up to their await (routes/auth.js:18-28,
\* unnamed/part_000:14-24): 400 without email or password, otherwise the
\* user lookup is issued.
Login(r, in) ==
    /\ in.route \in {"login", "loginJson"}
    /\ calls < MaxCalls
    /\ req[r].pc \in {"idle", "done"}
    /\ \A q \in Slots : q < r => req[q].pc \notin {"idle", "done"}
    /\ calls' = calls + 1
    /\ req' = [req EXCEPT ![r] =
                  IF in.email = "" \/ in.password = ""
                  THEN [IdleReq EXCEPT !.pc = "done", !.in = in,
                           !.res = Response(400, "Email and password are required", << >>, NoMeta)]
                  ELSE [IdleReq EXCEPT !.pc = "findUser", !.in = in, !.lookups = 1]]
    /\ UNCHANGED <<authToken, tokenExpires, now, sampleLoads, nodeEnv, portal, ticks,
                   exchangesIssued, lastGrant, disturbances>>

\* routes/auth.js:28-65 after findOne answered.  For no user or a password
\* that bcrypt.compare rejects the handler calls res.json(401).json(...):
\* res.json(401) sends the body 401 with the default status 200; the
\* chained json() then throws because the response is sent, the catch
\* block's res.status(500).json(...) throws for the same reason, and the
\* client keeps the 200.
LoginMobile(in, ok) ==
    LET found == SelectSeq(MobileUsers, LAMBDA u : u.email = in.email)
    IN  IF ~ok THEN [res |-> LoginServerError, lookup |-> "failed", lateSends |-> 0]
        ELSE IF found = << >>
        THEN [res |-> Response(200, "401", << >>, NoMeta), lookup |-> "empty", lateSends |-> 2]
        ELSE IF ~bcryptCompare(in.password, Head(found).password)
        THEN [res |-> Response(200, "401", << >>, NoMeta), lookup |-> "found", lateSends |-> 2]
        ELSE [res |-> LoginOk(Head(found), in.email), lookup |-> "found", lateSends |-> 0]

\* unnamed/part_000:22-54 after Users.authenticate answered; readUsers
\* turns a file it cannot read into an empty list (models/users.js:24-28).
LoginJson(in, ok) ==
    LET a == authenticate(IF ok THEN usersCache ELSE << >>, in.email, in.password)
        lookup == IF ~ok THEN "failed"
                  ELSE IF findByEmail(usersCache, in.email) = << >> THEN "empty" ELSE "found"
    IN  IF a.threw THEN [res |-> LoginServerError, lookup |-> lookup, lateSends |-> 0]
        ELSE IF a.user = << >>
        THEN [res |-> Response(401, "Invalid email or password", << >>, NoMeta),
              lookup |-> lookup, lateSends |-> 0]
        ELSE [res |-> LoginOk(Head(a.user), Head(a.user).email), lookup |-> lookup,
              lateSends |-> 0]

\* The user lookup of a login answers, and the handler responds; the token
\* unnamed/part_000 signs is from then on one a client can present.
LoginLookedUp(r, ok) ==
    /\ req[r].pc = "findUser"
    /\ LET out == IF req[r].in.route = "login" THEN LoginMobile(req[r].in, ok)
                  ELSE LoginJson(req[r].in, ok)
       IN  /\ req' = [req EXCEPT ![r].pc = "done", ![r].res = out.res,
                                ![r].lookup = out.lookup, ![r].lateSends = out.lateSends]
           /\ sessions' = IF req[r].in.route = "loginJson" /\ out.res.kind = "userToken"
                          THEN sessions \cup {out.res.items[1].token}
                          ELSE sessions
    /\ UNCHANGED <<authToken, tokenExpires, now, sampleLoads, nodeEnv, usersCache, apiRouter,
                   calls, ticks, exchangesIssued, lastGrant, disturbances>>

\* ------------------------------------------------------------- user store
\* The addresses users are created with, and the Hostaway user id given
\* for each address.
PortalEmails == {"ann@x.io", "bob@x.io"}
HostawayIdOf(email) == IF email = "ann@x.io" THEN 7 ELSE 8
NewUsers ==
    {[email |-> e, password |-> "pw2", userId |-> HostawayIdOf(e), role |-> "owner"] :
        e \in PortalEmails}

\* Math.max(...users.map(u => u.id))
MaxId(list) == CHOOSE m \in {list[i].id : i \in 1..Len(list)} :
                   \A i \in 1..Len(list) : list[i].id <= m

\* createUser (models/users.js:113-145), when the address is not in use and
\* the file is written: the new user gets the highest stored id plus one, 1
\* in an empty store.
createUser(userData) ==
    /\ findByEmail(usersCache, userData.email) = << >>
    /\ LET newUser ==
               [id |-> IF Len(usersCache) > 0 THEN MaxId(usersCache) + 1 ELSE 1,
                email |-> userData.email,
                passwordHash |-> Sha256(<<userData.password, "s2">>),
                passwordSalt |-> "s2",
                userId |-> userData.userId, role |-> userData.role]
       IN  /\ newUser.id <= MaxUserId
           /\ usersCache' = Append(usersCache, newUser)
    /\ UNCHANGED <<authToken, tokenExpires, now, sampleLoads, nodeEnv, sessions, apiRouter,
                   req, calls, ticks, exchangesIssued, lastGrant, disturbances>>

\* deleteUser (models/users.js:207-222), when a user has the id and the
\* file is written.
deleteUser(id) ==
    /\ \E i \in 1..Len(usersCache) : usersCache[i].id = id
    /\ usersCache' = SelectSeq(usersCache, LAMBDA u : u.id # id)
    /\ UNCHANGED <<authToken, tokenExpires, now, sampleLoads, nodeEnv, sessions, apiRouter,
                   req, calls, ticks, exchangesIssued, lastGrant, disturbances>>

\* findById (models/users.js:97-106): << >> for null, otherwise the user
\* without passwordHash and passwordSalt.
findById(list, id) ==
    LET found == SelectSeq(list, LAMBDA u : u.id = id)
    IN  IF found = << >> THEN << >>
        ELSE << [id |-> Head(found).id, email |-> Head(found).email,
                 userId |-> Head(found).userId, role |-> Head(found).role] >>

\* ----------------------------------------------------- authenticated routes
\* What a client sends as its bearer token: nothing, a token this server
\* did not sign, or one of the tokens the login route has signed.
NoSessionToken == [userId |-> 0, email |-> ""]
ForgedToken == [userId |-> 1, email |-> "forged"]
Presentable == sessions \cup {NoSessionToken, ForgedToken}

\* authenticateToken (unnamed/part_004:38-75): 401 without a token, 401
\* for a token jwt.verify rejects, 401 when findById finds no user of the
\* token's userId; otherwise the user found is attached to the request.
\* (A token is valid for 24 hours, longer than the clock of a behaviour runs.)
authenticateToken(token) ==
    IF token = NoSessionToken
    THEN [ok |-> FALSE, user |-> << >>,
          res |-> Response(401, "Authentication required", << >>, NoMeta)]
    ELSE IF token \notin sessions
    THEN [ok |-> FALSE, user |-> << >>, res |-> Response(401, "Invalid token", << >>, NoMeta)]
    ELSE IF findById(usersCache, token.userId) = << >>
    THEN [ok |-> FALSE, user |-> << >>, res |-> Response(401, "Invalid user", << >>, NoMeta)]
    ELSE [ok |-> TRUE, user |-> findById(usersCache, token.userId), res |-> NoResponse]

MeInputs == {[route |-> "me", id |-> "", query |-> EmptyQuery, token |-> t] : t \in Presentable}

\* GET /api/auth/me (unnamed/part_000:61-64): authenticateToken, then the
\* attached user is the response.
Me(r, in) ==
    /\ in.route = "me"
    /\ calls < MaxCalls
    /\ req[r].pc \in {"idle", "done"}
    /\ \A q \in Slots : q < r => req[q].pc \notin {"idle", "done"}
    /\ calls' = calls + 1
    /\ LET a == authenticateToken(in.token)
       IN  req' = [req EXCEPT ![r] =
                      [IdleReq EXCEPT !.pc = "done", !.in = in, !.user = a.user,
                                      !.res = IF a.ok THEN Response(200, "user", a.user, NoMeta)
                                              ELSE a.res]]
    /\ UNCHANGED <<authToken, tokenExpires, now, sampleLoads, nodeEnv, portal, ticks,
                   exchangesIssued, lastGrant, disturbances>>

\* req.query of a listings request, as the sequence of its parameters.
ClientQueries == {<< >>, << <<"limit", "1">> >>, << <<"userId", "999">> >>}
PortalInputs ==
    {[route |-> "portalListings", id |-> "", query |-> EmptyQuery, token |-> t, params |-> p] :
        t \in Presentable, p \in ClientQueries}

\* The query string makeApiRequest puts on the vendor URL, as the sequence
\* of its key=value pairs: new URLSearchParams(queryParams) and, in
\* unnamed/part_001:69-74, &userId=${user.userId} after it when a user is
\* given; unnamed/part_002:87-90 builds it from queryParams alone.
\* ToString is the decimal text of the id, as the template literal gives.
QueryString(queryParams, user, router) ==
    IF router = "part_001" /\ user # << >>
    THEN Append(queryParams, <<"userId", ToString(Head(user).userId)>>)
    ELSE queryParams

\* GET /listings of the mounted API router (unnamed/part_001:141-149,
\* unnamed/part_002:154-157): authenticateToken, then makeApiRequest with
\* req.query and req.user, which calls getAuthToken and sends the vendor
\* request as the server's makeApiRequest does.
PortalListings(r, in) ==
    /\ in.route = "portalListings"
    /\ calls < MaxCalls
    /\ req[r].pc \in {"idle", "done"}
    /\ \A q \in Slots : q < r => req[q].pc \notin {"idle", "done"}
    /\ calls' = calls + 1
    /\ LET a == authenticateToken(in.token)
           url == QueryString(in.params, a.user, apiRouter)
       IN  IF ~a.ok
           THEN /\ req' = [req EXCEPT ![r] = [IdleReq EXCEPT !.pc = "done", !.in = in,
                                                             !.res = a.res]]
                /\ exchangesIssued' = exchangesIssued
           ELSE IF TokenValid(authToken, tokenExpires, now)
           THEN /\ req' = [req EXCEPT ![r] =
                              [IdleReq EXCEPT !.pc = "sent", !.in = in, !.tok = authToken,
                                              !.nSend = 1, !.user = a.user, !.url = url]]
                /\ exchangesIssued' = exchangesIssued
           ELSE /\ req' = [req EXCEPT ![r] =
                              [IdleReq EXCEPT !.pc = "exchanging", !.in = in, !.nExch = 1,
                                              !.user = a.user, !.url = url]]
                /\ exchangesIssued' = exchangesIssued + 1
    /\ UNCHANGED <<authToken, tokenExpires, now, sampleLoads, nodeEnv, portal, ticks,
                   lastGrant, disturbances>>

\* ------------------------------------------------------------------ health
HealthInput == [route |-> "health", id |-> "", query |-> EmptyQuery]
\* token: authToken ? 'valid' : 'not authenticated' (server.js:461)
HealthReport(t) ==
    Response(200, IF t # Null THEN "valid" ELSE "not authenticated", << >>, NoMeta)

\* The health check dropping the token it reports on.
HealthClears(r) ==
    /\ calls < MaxCalls
    /\ req[r].pc \in {"idle", "done"}
    /\ \A q \in Slots : q < r => req[q].pc \notin {"idle", "done"}
    /\ calls' = calls + 1
    /\ req' = [req EXCEPT ![r] =
                  [IdleReq EXCEPT !.pc = "done", !.in = HealthInput,
                                  !.res = HealthReport(authToken)]]
    /\ authToken' = Null
    /\ tokenExpires' = 0
    /\ UNCHANGED <<now, sampleLoads, nodeEnv, portal, ticks,
                   exchangesIssued, lastGrant, disturbances>>

\* app.get('/health') (server.js:452-466): a synchronous handler that reads
\* authToken and answers.
Health(r) ==
    /\ calls < MaxCalls
    /\ req[r].pc \in {"idle", "done"}
    /\ \A q \in Slots : q < r => req[q].pc \notin {"idle", "done"}
    /\ calls' = calls + 1
    /\ req' = [req EXCEPT ![r] =
                  [IdleReq EXCEPT !.pc = "done", !.in = HealthInput,
                                  !.res = HealthReport(authToken)]]
    /\ UNCHANGED <<authToken, tokenExpires, now, sampleLoads, nodeEnv, portal, ticks,
                   exchangesIssued, lastGrant, disturbances>>

\* Time passes.
Tick(d) ==
    /\ ticks < MaxTicks
    /\ now' = now + d
    /\ ticks' = ticks + 1
    /\ UNCHANGED <<authToken, tokenExpires, sampleLoads, nodeEnv, portal, req, calls,
                   exchangesIssued, lastGrant, disturbances>>

\* One step of the server, for requests drawn from ins and vendor answers
\* drawn from outs.
Steps(ins, outs) ==
    \/ \E r \in Slots, in \in ins : Start(r, in)
    \/ \E r \in Slots, l \in Lifetimes : ExchangeOk(r, l)
    \/ \E r \in Slots : ExchangeFail(r)
    \/ \E r \in Slots : VendorOk(r)
    \/ \E r \in Slots, o \in outs : VendorFail(r, o)
    \/ \E d \in TickSteps : Tick(d)

\* Concurrent requests on the token cache: NumReqs handlers in flight, the
\* listings route, and one vendor answer of each kind that the cache can
\* tell apart.
CacheInputs == {[route |-> "listings", id |-> "", query |-> EmptyQuery]}
CacheOutcomes ==
    {[kind |-> "http", status |-> 401, msg |-> ""],
     [kind |-> "http", status |-> 404, msg |-> ""],
     [kind |-> "noresp", status |-> 0, msg |-> ""],
     [kind |-> "timeout", status |-> 0, msg |-> ""]}

Next == Steps(CacheInputs, CacheOutcomes)
Spec == Init /\ [][Next]_vars

\* One request at a time, over every route and every vendor answer, with
\* the sample module loading or not.
InitHandlers ==
    /\ authToken = Null
    /\ tokenExpires = 0
    /\ now = 0
    /\ sampleLoads \in BOOLEAN
    /\ nodeEnv \in NodeEnvs
    /\ usersCache = JsonUsers
    /\ sessions = {}
    /\ apiRouter = "part_001"
    /\ req = [r \in {1} |-> IdleReq]
    /\ calls = 0
    /\ ticks = 0
    /\ exchangesIssued = 0
    /\ lastGrant = NoGrant
    /\ disturbances = {}

\* The handlers do not read the clock: one expires_in and one clock advance
\* are kept, chosen so that a cached token is expired after the advance.
HandlerLifetimes == {599}
HandlerTickSteps == {299000}

NextHandlers ==
    \/ \E r \in Slots, in \in Inputs : Start(r, in)
    \/ \E r \in Slots, l \in HandlerLifetimes : ExchangeOk(r, l)
    \/ \E r \in Slots : ExchangeFail(r)
    \/ \E r \in Slots : VendorOk(r)
    \/ \E r \in Slots, o \in VendorOutcomes : VendorFail(r, o)
    \/ \E d \in HandlerTickSteps : Tick(d)
    \/ \E r \in Slots, in \in Inputs : Reject(r, in)
    \/ \E r \in Slots, in \in WebhookInputs : NewReservation(r, in)
    \/ \E r \in Slots, ok \in BOOLEAN : UsersLookedUp(r, ok)
    \/ \E r \in Slots, o \in NotifyOutcomes : Notified(r, o)
    \/ \E r \in Slots, in \in LoginInputs : Login(r, in)
    \/ \E r \in Slots, ok \in BOOLEAN : LoginLookedUp(r, ok)
    \/ \E r \in Slots : Health(r)
SpecHandlers == InitHandlers /\ [][NextHandlers]_vars

\* ----------------------------------------------------------------- api.js
\* The numbers api.js computes from the dates of the model are multiples of
\* one half: such a number is kept as the count of its halves.
HalfDayMs == 43200000
Halves(n) == [halves |-> n]
Whole(n) == Halves(2 * n)

\* nights of hostawayApi.getReservationById (api.js:250-251): check-out
\* minus check-in in days, signed and not rounded.
nightsById(checkIn, checkOut) ==
    Halves((ParseDate(checkOut) - ParseDate(checkIn)) \div HalfDayMs)

\* The reservation record both fallbacks of api.js build from a sample row
\* (api.js:168-182, 253-268).
apiReservation(res, nights) ==
    [id |-> res.id, listingId |-> res.propertyId, guestName |-> res.guestName,
     checkInDate |-> res.checkIn, checkOutDate |-> res.checkOut,
     basePrice |-> res.pricePerNight, cleaningFee |-> res.cleaningFee,
     amenitiesFee |-> res.amenities, extraFees |-> res.extraFees,
     totalPrice |-> Halves(res.pricePerNight * nights.halves
                           + 2 * (res.cleaningFee + res.amenities + res.extraFees)),
     source |-> res.bookingSource, status |-> res.status]

\* What a function of hostawayApi gives its caller: a value, or an error.
Returned(res) == [threw |-> FALSE, thrown |-> NoError, res |-> res]

\* The error apiRequest throws (api.js:48-82) for an answer that is not ok,
\* for its own timeout, and for a request that got no answer.
apiRequestError(o) ==
    CASE o.kind = "http"    -> Err("API request failed with status ", NoEndpoint, o.status)
      [] o.kind = "timeout" -> Err("API request timed out after 30000ms: ", NoEndpoint, 0)
      [] OTHER              -> Err("request failed", NoEndpoint, 0)

\* The filters and the page of getReservations' fallback (api.js:184-211);
\* the page is cut with the expressions of paginateResults.
apiFilter(reservations, params) ==
    LET f1 == IF params.listingId # ""
              THEN SelectSeq(reservations, LAMBDA r : r.listingId = params.listingId)
              ELSE reservations
        f2 == IF params.status # ""
              THEN SelectSeq(f1, LAMBDA r : r.status = params.status)
              ELSE f1
    IN  IF params.search # << >>
        THEN SelectSeq(f2, LAMBDA r : includes(toLowerCase(r.guestName),
                                               toLowerCase(params.search)))
        ELSE f2

\* The catch block of each function of hostawayApi for the error e of
\* apiRequest (api.js:99-116, 127-140, 153-211, 236-268, 287-291).
hostawayApi(fn, id, params, e) ==
    CASE fn = "getListings" ->
           Returned(Response(200, "sampleListings",
                    [i \in 1..Len(SampleProperties) |-> ToApiListing(SampleProperties[i])],
                    NoMeta))
      [] fn = "getListingById" ->
           IF Find(SampleProperties, id) # << >>
           THEN Returned(Response(200, "sampleListing", <<Head(Find(SampleProperties, id))>>,
                                  NoMeta))
           ELSE Threw(Err("Listing not found", NoEndpoint, 404))
      [] fn = "getReservations" ->
           LET reservations ==
                   [i \in 1..Len(SampleReservations) |->
                       apiReservation(SampleReservations[i],
                                      Whole(calculateNights(SampleReservations[i].checkIn,
                                                            SampleReservations[i].checkOut)))]
               page == paginateResults(apiFilter(reservations, params), params)
           IN  Returned(Response(200, "sampleReservations", page.items, page.meta))
      [] fn = "getReservationById" ->
           LET found == Find(SampleReservations, id)
           IN  IF found = << >>
               THEN Threw(Err("Reservation not found", NoEndpoint, 404))
               ELSE Returned(Response(200, "sampleReservation",
                        <<apiReservation(Head(found),
                                         nightsById(Head(found).checkIn, Head(found).checkOut))>>,
                        NoMeta))
      [] OTHER -> Threw(e)

\* ------------------------------------------------------ routes of index.js
\* The layers of the router index.js mounts at '/' (unnamed/part_003), each
\* with the line that registers it; a path is the tuple of its segments and
\* ":id" is a parameter.  Express tries the layers in registration order.
RouterLayers ==
    << [line |-> 191, method |-> "GET",  path |-> <<"api", "listings">>, name |-> "listings"],
       [line |-> 217, method |-> "GET",  path |-> <<"api", "calendar">>, name |-> "calendar"],
       [line |-> 239, method |-> "GET",  path |-> <<"health">>,          name |-> "health"],
       [line |-> 252, method |-> "use",  path |-> <<"api", "*">>,        name |-> "apiNotFound"],
       [line |-> 274, method |-> "GET",  path |-> <<"api", "reservations", ":id">>,
        name |-> "reservationById"],
       [line |-> 312, method |-> "GET",  path |-> <<"api", "listings", ":id">>,
        name |-> "listingById"],
       [line |-> 332, method |-> "GET",  path |-> <<"api", "reservations">>,
        name |-> "reservations"],
       [line |-> 447, method |-> "POST", path |-> <<"api", "finance", "report", "consolidated">>,
        name |-> "report"] >>

\* The routes and the catch-all of server.js, at the lines of RegisteredAt.
ServerLayers ==
    << [line |-> 171, method |-> "GET",  path |-> <<"api", "listings">>, name |-> "listings"],
       [line |-> 203, method |-> "GET",  path |-> <<"api", "listings", ":id">>,
        name |-> "listingById"],
       [line |-> 227, method |-> "GET",  path |-> <<"api", "reservations">>,
        name |-> "reservations"],
       [line |-> 282, method |-> "POST", path |-> <<"api", "finance", "report", "consolidated">>,
        name |-> "report"],
       [line |-> 392, method |-> "GET",  path |-> <<"api", "reservations", ":id">>,
        name |-> "reservationById"],
       [line |-> 433, method |-> "GET",  path |-> <<"api", "calendar">>, name |-> "calendar"],
       [line |-> 452, method |-> "GET",  path |-> <<"health">>,          name |-> "health"],
       [line |-> 469, method |-> "use",  path |-> <<"*">>,               name |-> "notFound"] >>

\* Whether a layer takes a request: a route needs its method and a path of
\* its shape, a use() layer any method and a path under its prefix.
LayerMatches(layer, method, path) ==
    IF layer.method = "use"
    THEN /\ Len(path) >= Len(layer.path)
         /\ \A i \in 1..(Len(layer.path) - 1) : layer.path[i] = path[i]
    ELSE /\ layer.method = method
         /\ Len(path) = Len(layer.path)
         /\ \A i \in 1..Len(path) : layer.path[i] = ":id" \/ layer.path[i] = path[i]

\* The layer that handles a request: the matching layer registered first,
\* "none" when no layer matches.
Dispatch(layers, method, path) ==
    LET matching == {i \in 1..Len(layers) : LayerMatches(layers[i], method, path)}
    IN  IF matching = {} THEN "none"
        ELSE layers[CHOOSE i \in matching :
                        \A j \in matching : layers[i].line <= layers[j].line].name

\* Requests to the server of index.js.
HttpRequests ==
    {[method |-> "GET", path |-> p, query |-> EmptyQuery] :
        p \in {<<"api", "listings">>, <<"api", "listings", "p1">>, <<"api", "reservations">>,
               <<"api", "reservations", "r2">>, <<"api", "nothing">>, <<"health">>,
               <<"dashboard">>}}
    \cup {[method |-> "GET", path |-> <<"api", "calendar">>, query |-> q] : q \in CalendarQueries}
    \cup {[method |-> "POST", path |-> p, query |-> EmptyQuery] :
            p \in {<<"api", "finance", "report", "consolidated">>, <<"api", "listings">>}}

\* The function of hostawayApi each route handler calls.
ApiFnOf(layer) ==
    CASE layer = "listings"        -> "getListings"
      [] layer = "listingById"     -> "getListingById"
      [] layer = "reservations"    -> "getReservations"
      [] layer = "reservationById" -> "getReservationById"
      [] layer = "calendar"        -> "getCalendar"
      [] OTHER                     -> "none"

\* What a layer answers without calling hostawayApi: the catch-all its 404
\* (unnamed/part_003:252-259), /health its report, the calendar route 400
\* for a missing parameter (part_003:220-224), the report route 500 because
\* its getAuthToken is not defined in the file (part_003:459, 480); a GET no
\* layer of the router takes gets the page of the React app (index.js:25)
\* and any other request Express's own 404.  NoResponse: the handler calls
\* hostawayApi.
AnsweredAtOnce(layer, h) ==
    CASE layer = "apiNotFound" -> Response(404, "API endpoint not found: ", << >>, NoMeta)
      [] layer = "health"      -> Response(200, "UP", << >>, NoMeta)
      [] layer = "report"      -> Response(500, "getAuthToken is not defined", << >>, NoMeta)
      [] layer = "calendar"    -> CalendarCheck(h.query).res
      [] layer = "none"        -> IF h.method = "GET"
                                  THEN Response(200, "index.html", << >>, NoMeta)
                                  ELSE Response(404, "Cannot POST", << >>, NoMeta)
      [] OTHER                 -> NoResponse

\* A request arrives at the server of index.js: the router dispatches it,
\* and the layer answers at once or calls its function of hostawayApi,
\* whose apiRequest is then in flight.
Arrive(r, h) ==
    /\ calls < MaxCalls
    /\ req[r].pc \in {"idle", "done"}
    /\ \A q \in Slots : q < r => req[q].pc \notin {"idle", "done"}
    /\ calls' = calls + 1
    /\ LET layer == Dispatch(RouterLayers, h.method, h.path)
           in    == [route |-> ApiFnOf(layer),
                     id |-> IF Len(h.path) = 3 THEN h.path[3] ELSE "",
                     query |-> h.query, method |-> h.method, path |-> h.path]
           now1  == AnsweredAtOnce(layer, h)
       IN  req' = [req EXCEPT ![r] =
                      IF now1 # NoResponse
                      THEN [IdleReq EXCEPT !.pc = "done", !.in = in, !.layer = layer,
                                           !.res = now1]
                      ELSE [IdleReq EXCEPT !.pc = "fetching", !.in = in, !.layer = layer,
                                           !.nSend = 1]]
    /\ UNCHANGED <<authToken, tokenExpires, now, sampleLoads, nodeEnv, portal, ticks,
                   exchangesIssued, lastGrant, disturbances>>

\* Calls of the reservation functions of hostawayApi by any other caller.
ApiCalls ==
    {[route |-> "getReservations", id |-> "", query |-> q, method |-> "", path |-> << >>] :
        q \in {EmptyQuery, [EmptyQuery EXCEPT !.listingId = "p2"],
               [EmptyQuery EXCEPT !.status = "confirmed", !.limit = "1"]}}
    \cup {[route |-> "getReservationById", id |-> i, query |-> EmptyQuery,
           method |-> "", path |-> << >>] : i \in {"r1", "r2", "r3", "zz"}}

ApiCall(r, c) ==
    /\ calls < MaxCalls
    /\ req[r].pc \in {"idle", "done"}
    /\ \A q \in Slots : q < r => req[q].pc \notin {"idle", "done"}
    /\ calls' = calls + 1
    /\ req' = [req EXCEPT ![r] = [IdleReq EXCEPT !.pc = "fetching", !.in = c, !.nSend = 1]]
    /\ UNCHANGED <<authToken, tokenExpires, now, sampleLoads, nodeEnv, portal, ticks,
                   exchangesIssued, lastGrant, disturbances>>

\* The catch block of a route handler for the error its function of
\* hostawayApi threw (unnamed/part_003:195-210, 230-234, 278-306, 316-326):
\* the sample record or 404 for the by-id routes, the error's status for
\* the calendar.
RouteCaught(layer, in, e) ==
    CASE layer = "calendar" ->
           Response(IF e.status # 0 THEN e.status ELSE 500, e.text, << >>, NoMeta)
      [] layer = "listingById" ->
           IF Find(SampleProperties, in.id) # << >>
           THEN Response(200, "sampleListing", <<Head(Find(SampleProperties, in.id))>>, NoMeta)
           ELSE Response(404, "Listing not found", << >>, NoMeta)
      [] layer = "reservationById" ->
           LET found == Find(SampleReservations, in.id)
           IN  IF found # << >>
               THEN Response(200, "sampleReservation",
                             <<ToApiReservation(Head(found),
                                   calculateNights(Head(found).checkIn, Head(found).checkOut))>>,
                             NoMeta)
               ELSE Response(404, "Reservation not found", << >>, NoMeta)
      [] OTHER -> Response(500, e.text, << >>, NoMeta)

ApiOutcomes ==
    {[kind |-> "ok", status |-> 200, msg |-> ""],
     [kind |-> "http", status |-> 503, msg |-> ""],
     [kind |-> "timeout", status |-> 0, msg |-> ""]}

\* apiRequest is answered (api.js:41-82): its data is returned, or its
\* error is caught by the function of hostawayApi that called it, whose
\* result goes to the route handler, if one called, and to the client.
Fetched(r, o) ==
    /\ req[r].pc = "fetching"
    /\ LET e   == apiRequestError(o)
           out == IF o.kind = "ok" THEN Returned(Response(200, "vendor", << >>, NoMeta))
                  ELSE hostawayApi(req[r].in.route, req[r].in.id, req[r].in.query, e)
       IN  req' = [req EXCEPT ![r].pc = "done", ![r].vendor = o,
                      ![r].err = IF o.kind = "ok" THEN NoError ELSE e,
                      ![r].fallback = (o.kind # "ok"),
                      ![r].res = IF ~out.threw THEN out.res
                                 ELSE IF req[r].layer = "none" THEN NoResponse
                                 ELSE RouteCaught(req[r].layer, req[r].in, out.thrown),
                      ![r].fwd = IF out.threw /\ req[r].layer = "none" THEN out.thrown
                                 ELSE NoError]
    /\ UNCHANGED <<authToken, tokenExpires, now, sampleLoads, nodeEnv, portal, calls, ticks,
                   exchangesIssued, lastGrant, disturbances>>

\* The server of index.js and the callers of hostawayApi.
NextRoutes ==
    \/ \E r \in Slots, h \in HttpRequests : Arrive(r, h)
    \/ \E r \in Slots, c \in ApiCalls : ApiCall(r, c)
    \/ \E r \in Slots, o \in ApiOutcomes : Fetched(r, o)
SpecRoutes == Init /\ [][NextRoutes]_vars

\* The owner portal: logins, the user store, and the authenticated routes
\* of the API router, either file of which may be the one mounted.
InitPortal ==
    /\ authToken = Null
    /\ tokenExpires = 0
    /\ now = 0
    /\ sampleLoads = TRUE
    /\ nodeEnv = "production"
    /\ usersCache = JsonUsers
    /\ sessions = {}
    /\ apiRouter \in {"part_001", "part_002"}
    /\ req = [r \in Reqs |-> IdleReq]
    /\ calls = 0
    /\ ticks = 0
    /\ exchangesIssued = 0
    /\ lastGrant = NoGrant
    /\ disturbances = {}

PortalLogins ==
    {[route |-> "loginJson", id |-> "", query |-> EmptyQuery, email |-> e, password |-> "pw1"] :
        e \in PortalEmails}
PortalOutcomes == {[kind |-> "http", status |-> 500, msg |-> ""]}

NextPortal ==
    \/ \E r \in Slots, in \in PortalLogins : Login(r, in)
    \/ \E r \in Slots : LoginLookedUp(r, TRUE)
    \/ \E userData \in NewUsers : createUser(userData)
    \/ \E id \in 1..MaxUserId : deleteUser(id)
    \/ \E r \in Slots, in \in MeInputs : Me(r, in)
    \/ \E r \in Slots, in \in PortalInputs : PortalListings(r, in)
    \/ \E r \in Slots, l \in HandlerLifetimes : ExchangeOk(r, l)
    \/ \E r \in Slots : ExchangeFail(r)
    \/ \E r \in Slots : VendorOk(r)
    \/ \E r \in Slots, o \in PortalOutcomes : VendorFail(r, o)
SpecPortal == InitPortal /\ [][NextPortal]_vars

\* The reservations fallback over its query parameters: one request at a
\* time whose token exchange fails, so that the handler answers from the
\* sample data, for every combination of the filter and page parameters.
FallbackQueries ==
    {[listingId |-> l, arrivalStartDate |-> a, departureEndDate |-> d,
      status |-> st, search |-> se, limit |-> li, offset |-> off] :
        l \in {"", "p1"}, a \in {"", "2024-01-04"}, d \in {"", "2024-01-05"},
        st \in {"", "confirmed"}, se \in {<< >>, <<"A", "N">>},
        li \in {"", "0", "1", "2", "-1", "abc"}, off \in {"", "0", "1", "2", "-1"}}
FallbackInputs == {[route |-> "reservations", id |-> "", query |-> q] : q \in FallbackQueries}

InitFallback ==
    /\ authToken = Null
    /\ tokenExpires = 0
    /\ now = 0
    /\ sampleLoads \in BOOLEAN
    /\ nodeEnv = "production"
    /\ usersCache = JsonUsers
    /\ sessions = {}
    /\ apiRouter = "part_001"
    /\ req = [r \in {1} |-> IdleReq]
    /\ calls = 0
    /\ ticks = 0
    /\ exchangesIssued = 0
    /\ lastGrant = NoGrant
    /\ disturbances = {}

NextFallback ==
    \/ \E r \in Slots, in \in FallbackInputs : Start(r, in)
    \/ \E r \in Slots : ExchangeFail(r)
SpecFallback == InitFallback /\ [][NextFallback]_vars

\* ------------------------------------------------------------------ claims
\* Step predicates the claims share: slot r's handler calls getAuthToken in
\* this step; slot r's exchange or vendor call is answered in this step.
CallsGetAuthToken(r) == calls' = calls + 1 /\ req'[r] # req[r]
IssuesExchange(r) == req'[r].pc = "exchanging" /\ exchangesIssued' = exchangesIssued + 1
ExchangeAnswered(r) == req[r].pc = "exchanging" /\ req'[r].pc # "exchanging"
VendorAnswered(r) == req[r].pc = "sent" /\ req'[r].pc # "sent"

\* C1 Token reuse: a getAuthToken call made while the cache holds a token
\* and now < tokenExpires sends the vendor request with that token and
\* issues no exchange; and as long as the calls have been sequential, none
\* failed, none was answered 401 and none came at or after the stored
\* expiry, exactly one exchange has been issued in total.
C1_TokenReuse ==
    /\ [](calls >= 1 /\ disturbances = {} => exchangesIssued = 1)
    /\ [][\A r \in Slots :
            (CallsGetAuthToken(r) /\ authToken # Null /\ now < tokenExpires)
            => /\ exchangesIssued' = exchangesIssued
               /\ req'[r].pc = "sent"
               /\ req'[r].tok = authToken
               /\ req'[r].nExch = 0]_vars

\* Sequential calls on a fresh token, the last one reusing it.
C1_Witness ==
    /\ calls >= 2 /\ disturbances = {} /\ exchangesIssued = 1
    /\ \E r \in Slots : req[r].pc = "sent" /\ req[r].nExch = 0 /\ req[r].tok = authToken

\* C2 401 invalidation: the step in which a vendor call is answered 401
\* leaves authToken = null and tokenExpires = 0, and a getAuthToken call on
\* the cleared cache issues a new exchange, whatever expiry was cleared.
C2_Invalidation ==
    [][\A r \in Slots :
         /\ (VendorAnswered(r) /\ req'[r].vendor.status = 401)
            => (authToken' = Null /\ tokenExpires' = 0)
         /\ (CallsGetAuthToken(r) /\ authToken = Null /\ lastGrant.tok # Null)
            => IssuesExchange(r)]_vars

\* A call exchanging on a cache that a 401 cleared while the cleared expiry
\* (that of the last grant) was still in the future; no call overlapped.
C2_Witness ==
    /\ disturbances = {"401"}
    /\ authToken = Null /\ tokenExpires = 0
    /\ lastGrant.tok # Null
    /\ lastGrant.at + lastGrant.life * 1000 - 300000 > now
    /\ \E r \in Slots : req[r].pc = "exchanging"

\* C3 Concurrent refresh: a getAuthToken call that finds the cache empty or
\* expired issues its own exchange also while another exchange is in
\* flight; a cached token and expiry are those of the exchange answered
\* last; every vendor request in flight carries a non-null token that an
\* exchange returned, and a caller that exchanged carries its own.
C3_ConcurrentRefresh ==
    /\ [](/\ authToken # Null =>
               /\ authToken = lastGrant.tok
               /\ tokenExpires = lastGrant.at + lastGrant.life * 1000 - 300000
          /\ \A r \in Slots : req[r].pc = "sent" =>
               (req[r].tok # Null /\ req[r].tok \in 1..lastGrant.tok))
    /\ [][\A r \in Slots :
            /\ (CallsGetAuthToken(r) /\ (authToken = Null \/ now >= tokenExpires)
                  /\ \E q \in Slots \ {r} : req[q].pc = "exchanging")
               => IssuesExchange(r)
            /\ (ExchangeAnswered(r) /\ req'[r].pc = "sent")
               => (req'[r].tok = lastGrant'.tok /\ lastGrant'.tok = lastGrant.tok + 1)]_vars

\* Two calls that exchanged concurrently, each sent with its own token, the
\* cache holding the one granted last.
C3_Witness ==
    /\ calls = 2 /\ "overlap" \in disturbances
    /\ \E r, q \in Slots :
         /\ req[r].pc = "sent" /\ req[q].pc = "sent"
         /\ req[r].nExch = 1 /\ req[q].nExch = 1
         /\ req[r].tok = 1 /\ req[q].tok = 2
         /\ authToken = 2

\* C4 Preemptive refresh: an exchange answered at time t with expires_in = L
\* stores tokenExpires = t + L*1000 - 300000, and a getAuthToken call on a
\* cached token issues an exchange exactly when now >= tokenExpires.
C4_PreemptiveRefresh ==
    /\ [][\A r \in Slots, l \in Lifetimes :
            (ExchangeAnswered(r) /\ req'[r].pc = "sent" /\ lastGrant'.life = l)
            => tokenExpires' = now + l * 1000 - 300000]_vars
    /\ [][\A r \in Slots :
            (CallsGetAuthToken(r) /\ authToken # Null)
            => (IssuesExchange(r) <=> now >= tokenExpires)]_vars

\* L = 600 granted at time 0, and a call 301 s later that is exchanging: the
\* two clock advances allowed pass through 2 s or 299 s, where the token was
\* still valid, so the exchange was issued at 301 s.
C4_Witness ==
    /\ lastGrant.tok = 1 /\ lastGrant.life = 600 /\ lastGrant.at = 0
    /\ tokenExpires = 300000
    /\ ticks = 2 /\ now = 301000
    /\ disturbances = {"late"}
    /\ \E r \in Slots : req[r].pc = "exchanging"

\* C5 Exchange failure: when the exchange fails, the call raises 'Failed to
\* authenticate with Hostaway API' and authToken and tokenExpires keep their
\* values.
C5_ExchangeFailure ==
    [][\A r \in Slots :
         (ExchangeAnswered(r) /\ req'[r].pc = "done")
         => /\ req'[r].err.text = "Failed to authenticate with Hostaway API"
            /\ authToken' = authToken
            /\ tokenExpires' = tokenExpires]_vars

\* A refresh of an expired token failed and the expired token is still
\* cached with its expiry.
C5_Witness ==
    /\ calls = 2 /\ disturbances = {"late", "exchangeFailed"}
    /\ authToken = 1 /\ tokenExpires = lastGrant.at + lastGrant.life * 1000 - 300000
    /\ \E r \in Slots :
         req[r].pc = "done" /\ req[r].err.text = "Failed to authenticate with Hostaway API"

\* C6 No automatic retry: an invocation of makeApiRequest has issued at most
\* one exchange and at most one vendor request, whatever the outcome; one
\* answered 401 ends with 'Authentication failed. Please try again.', an
\* empty cache, and its single vendor request not sent again.
C6_NoRetry ==
    /\ [](\A r \in Slots : req[r].nExch <= 1 /\ req[r].nSend <= 1)
    /\ [][\A r \in Slots :
            (VendorAnswered(r) /\ req'[r].vendor.status = 401)
            => /\ req'[r].pc = "done"
               /\ req'[r].err.text = "Authentication failed. Please try again."
               /\ req'[r].nSend = 1 /\ req'[r].nExch = req[r].nExch
               /\ authToken' = Null
               /\ exchangesIssued' = exchangesIssued]_vars

\* An invocation that exchanged, sent once, and was answered 401.
C6_Witness ==
    \E r \in Slots :
        /\ req[r].pc = "done" /\ req[r].vendor.status = 401
        /\ req[r].nExch = 1 /\ req[r].nSend = 1
        /\ authToken = Null /\ exchangesIssued = 1

\* C7 Status classification: a vendor call answered with a non-2xx status
\* raises the error of its status: 401, 404 (with the endpoint), 429,
\* 500/502/503/504, and for any other status the vendor's message if there
\* is one and otherwise 'API request failed with status <code>'.
C7_Classification ==
    \A r \in Slots :
        (req[r].pc = "done" /\ req[r].vendor.kind = "http") =>
        LET st == req[r].vendor.status
            e  == req[r].err
        IN  CASE st = 401 -> e.text = "Authentication failed. Please try again."
              [] st = 404 -> e.text = "Resource not found: "
                             /\ e.endpoint = EndpointOf(req[r].in)
              [] st = 429 -> e.text = "API rate limit exceeded. Please try again later."
              [] st \in {500, 502, 503, 504} ->
                     e.text = "Hostaway API is currently unavailable. Please try again later."
              [] OTHER -> IF req[r].vendor.msg # ""
                          THEN e.text = req[r].vendor.msg /\ e.status = 0
                          ELSE e.text = "API request failed with status " /\ e.status = st

\* A 501 without vendor message: a 5xx status outside the listed four.
C7_Witness ==
    \E r \in Slots :
        /\ req[r].pc = "done" /\ req[r].vendor.kind = "http"
        /\ req[r].vendor.status = 501 /\ req[r].vendor.msg = ""
        /\ req[r].err.text = "API request failed with status " /\ req[r].err.status = 501

\* C8 Timeout is a distinct failure: the error raised for a vendor request
\* that timed out differs from the one raised for a request that got no
\* response, and both differ from the error of every HTTP status.
C8_TimeoutDistinct ==
    \A r, q \in Slots :
        (req[r].pc = "done" /\ req[q].pc = "done") =>
        /\ (req[r].vendor.kind = "timeout" /\ req[q].vendor.kind = "noresp")
           => req[r].err # req[q].err
        /\ (req[r].vendor.kind \in {"timeout", "noresp"} /\ req[q].vendor.kind = "http")
           => req[r].err # req[q].err

\* C9 Fallback masking: a listings request whose vendor call failed, with
\* the sample data loading, is answered 200 with the listings built from the
\* sample properties, and no error is forwarded.
C9_FallbackMasking ==
    \A r \in Slots :
        (req[r].pc = "done" /\ req[r].in.route = "listings"
           /\ req[r].err # NoError /\ sampleLoads) =>
        /\ req[r].res.status = 200
        /\ req[r].res.kind = "sampleListings"
        /\ Len(req[r].res.items) = Len(SampleProperties)
        /\ \A i \in 1..Len(SampleProperties) :
              /\ req[r].res.items[i].id = SampleProperties[i].id
              /\ req[r].res.items[i].name = SampleProperties[i].name
              /\ req[r].res.items[i].address.full = SampleProperties[i].address
        /\ req[r].fwd = NoError

\* A listings request whose token exchange failed, answered from the sample.
C9_Witness ==
    \E r \in Slots :
        /\ req[r].pc = "done" /\ req[r].in.route = "listings" /\ sampleLoads
        /\ req[r].err.text = "Failed to authenticate with Hostaway API"
        /\ req[r].res.status = 200 /\ req[r].res.kind = "sampleListings"
        /\ req[r].res.items[1].address.city = "Miami"

\* C10 Double failure: when the vendor call failed with E and the fallback
\* threw F, the handler forwards E, sends no response, and F is dropped.
C10_DoubleFailure ==
    \A r \in Slots :
        (req[r].pc = "done" /\ req[r].err # NoError
           /\ Fallback(req[r].in, sampleLoads).threw) =>
        /\ req[r].fwd = req[r].err
        /\ req[r].fwd # Fallback(req[r].in, sampleLoads).thrown
        /\ req[r].res = NoResponse

\* A reservation-by-id request answered 404 by the vendor whose fallback
\* found the sample record and threw: the 404 error is what is forwarded.
C10_Witness ==
    \E r \in Slots :
        /\ req[r].pc = "done" /\ req[r].in.route = "reservationById" /\ sampleLoads
        /\ req[r].vendor.status = 404
        /\ Fallback(req[r].in, sampleLoads).thrown.text = "calculateNights is not defined"
        /\ req[r].fwd.text = "Resource not found: "
        /\ req[r].fwd.endpoint = <<"/reservations/", "r1">>

\* The requests the validation claims are about, read off the request
\* itself: a calendar query lacking a required parameter, a report body
\* with a date that does not parse.
MissingCalendarParam(in) ==
    /\ in.route = "calendar"
    /\ \E f \in {"listingId", "startDate", "endDate"} : in.query[f] = ""
UnparseableReportDate(in) ==
    /\ in.route = "report"
    /\ \E f \in {"fromDate", "toDate"} : in.body[f] # "" /\ in.body[f] \notin DateStrings
FailsValidation(in) == MissingCalendarParam(in) \/ UnparseableReportDate(in)

\* The status the client receives: that of the handler's response or, for
\* a forwarded error, that of Express's answer.
FinalStatus(q) == IF q.fwd # NoError THEN q.errRes.status ELSE q.res.status

\* C11 No-fallback propagation: a calendar request with its three
\* parameters whose vendor call fails gets a non-2xx response whose error
\* message is the error makeApiRequest raised, and no fallback is run.
C11_CalendarPropagation ==
    \A r \in Slots :
        (req[r].pc = "done" /\ req[r].in.route = "calendar" /\ req[r].err # NoError) =>
        /\ ~req[r].fallback
        /\ req[r].res = NoResponse
        /\ req[r].errRes.status >= 300
        /\ req[r].errRes.message = req[r].err

\* C12 No vendor attempt on validation failure: a calendar request missing
\* a required parameter and a report request with an unparseable fromDate
\* or toDate complete in the step they arrive in, with no exchange and no
\* vendor request issued and the token cache as it was.
C12_NoVendorOnInvalid ==
    /\ [](\A r \in Slots : FailsValidation(req[r].in) =>
              /\ req[r].pc = "done"
              /\ req[r].nExch = 0 /\ req[r].nSend = 0
              /\ req[r].vendor = NoOutcome)
    /\ [][\A r \in Slots :
            (calls' = calls + 1 /\ req[r].pc \in {"idle", "done"}
               /\ FailsValidation(req'[r].in))
            => /\ authToken' = authToken
               /\ tokenExpires' = tokenExpires
               /\ exchangesIssued' = exchangesIssued]_vars

\* A calendar request without endDate answered 400 while a token granted
\* to an earlier request stays cached.
C12_Witness ==
    /\ calls = 2 /\ exchangesIssued = 1
    /\ authToken = 1 /\ tokenExpires = lastGrant.at + lastGrant.life * 1000 - 300000
    /\ \E r \in Slots :
         /\ req[r].pc = "done" /\ req[r].in.route = "calendar"
         /\ req[r].in.query.endDate = ""
         /\ req[r].res.status = 400 /\ req[r].nExch = 0 /\ req[r].nSend = 0

\* C13 Validation failures are client errors: a request that fails
\* validation is answered with a 4xx status, and the calendar one with 400
\* and the message naming the three parameters.
C13_ValidationIs4xx ==
    \A r \in Slots :
        (req[r].pc = "done" /\ FailsValidation(req[r].in)) =>
        /\ FinalStatus(req[r]) \in 400..499
        /\ MissingCalendarParam(req[r].in) =>
              /\ req[r].res.status = 400
              /\ req[r].res.kind = "Missing required parameters: listingId, startDate, endDate"

\* C14 Internal webhook guard: a new-reservation request whose
\* x-internal-source header is absent or is not exactly 'securestay.ai' is
\* answered 403 in the step it arrives in, with no HostawayUser lookup and
\* no notification dispatch; a request that dispatched carried that value.
C14_WebhookGuard ==
    \A r \in Slots :
        req[r].in.route = "newReservation" =>
        /\ req[r].in.source # "securestay.ai" =>
              /\ req[r].pc = "done"
              /\ req[r].res.status = 403
              /\ req[r].lookups = 0 /\ req[r].dispatches = 0
        /\ req[r].dispatches > 0 => req[r].in.source = "securestay.ai"

\* A request whose header differs from the expected value in case only,
\* for a listing that has users to notify, answered 403.
C14_Witness ==
    \E r \in Slots :
        /\ req[r].pc = "done" /\ req[r].in.route = "newReservation"
        /\ req[r].in.source = "SecureStay.ai" /\ req[r].in.listingMapId = "p1"
        /\ req[r].res.status = 403 /\ req[r].lookups = 0 /\ req[r].dispatches = 0

\* The credentials of a login request, judged against the stored users: the
\* user of that email, and whether the password is that user's.
IsLogin(in) == in.route \in {"login", "loginJson"}
PasswordVerifies(in) ==
    IF in.route = "login"
    THEN \E i \in 1..Len(MobileUsers) :
            /\ MobileUsers[i].email = in.email
            /\ bcryptCompare(in.password, MobileUsers[i].password)
    ELSE \E i \in 1..Len(JsonUsers) :
            /\ LowerEmail(JsonUsers[i].email) = LowerEmail(in.email)
            /\ verifyPassword(JsonUsers[i], in.password)

\* C15 Login rejection status: a login with an unknown email or with a
\* password that does not match the stored hash, whose user lookup was
\* answered, gets 401, and the handler sends exactly one response.
C15_LoginRejected401 ==
    \A r \in Slots :
        (req[r].pc = "done" /\ req[r].in.route = "login"
           /\ req[r].lookup \in {"empty", "found"} /\ ~PasswordVerifies(req[r].in)) =>
        /\ req[r].res.status = 401
        /\ req[r].lateSends = 0

\* C16 Login requires the password: a login response carrying a user and a
\* token was given to a request whose password verifies against the stored
\* credential of the user with that email.
C16_LoginNeedsPassword ==
    \A r \in Slots :
        (req[r].pc = "done" /\ IsLogin(req[r].in) /\ req[r].res.kind = "userToken") =>
        PasswordVerifies(req[r].in)

\* What the fallback claims measure the response against, computed from the
\* sample rows without the handler's helpers: the time of a date string,
\* the nights between two dates, the number a page parameter stands for,
\* and whether a reservation satisfies the filters of a query.
Later(a, b) == IF a >= b THEN a ELSE b
Earlier(a, b) == IF a <= b THEN a ELSE b
NightsBetween(d1, d2) ==
    LET span == Later(ParseDate(d1), ParseDate(d2)) - Earlier(ParseDate(d1), ParseDate(d2))
    IN  CHOOSE n \in 0..15 : n * MsPerDay >= span /\ (n = 0 \/ (n - 1) * MsPerDay < span)
QueryInt(str, default) ==
    CASE str = "0" -> 0 [] str = "1" -> 1 [] str = "2" -> 2 [] str = "10" -> 10
      [] str = "-1" -> -1
      [] OTHER -> default
ContainsIgnoringCase(name, part) ==
    \E k \in 0..(Len(name) - Len(part)) :
        \A j \in 1..Len(part) : LowerChar(name[k + j]) = LowerChar(part[j])
Matches(x, q) ==
    /\ q.listingId = "" \/ x.listingId = q.listingId
    /\ q.arrivalStartDate = "" \/ ParseDate(x.checkInDate) >= ParseDate(q.arrivalStartDate)
    /\ q.departureEndDate = "" \/ ParseDate(x.checkOutDate) <= ParseDate(q.departureEndDate)
    /\ q.status = "" \/ x.status = q.status
    /\ q.search = << >> \/ ContainsIgnoringCase(x.guestName, q.search)
\* The positions of the sample rows that satisfy q, in ascending order.
MatchingRows(q) ==
    {i \in 1..Len(SampleReservations) :
        Matches([listingId |-> SampleReservations[i].propertyId,
                 checkInDate |-> SampleReservations[i].checkIn,
                 checkOutDate |-> SampleReservations[i].checkOut,
                 status |-> SampleReservations[i].status,
                 guestName |-> SampleReservations[i].guestName], q)}
\* The k-th smallest element of a set of positions.
Nth(S, k) == CHOOSE i \in S : Cardinality({j \in S : j < i}) = k - 1
Min(a, b) == IF a <= b THEN a ELSE b
Max(a, b) == IF a >= b THEN a ELSE b
AnsweredFromSample(q) ==
    q.pc = "done" /\ q.in.route = "reservations" /\ q.res.kind = "sampleReservations"

\* C17 Derived total price: every reservation the reservations fallback
\* returns has totalPrice = basePrice * nights + cleaningFee + amenitiesFee
\* + extraFees with nights = ceil(|checkOut - checkIn| / 1 day), whichever
\* date is the later one.
C17_DerivedTotalPrice ==
    \A r \in Slots :
        AnsweredFromSample(req[r]) =>
        \A i \in 1..Len(req[r].res.items) :
            LET x == req[r].res.items[i]
            IN  x.totalPrice = x.basePrice * NightsBetween(x.checkInDate, x.checkOutDate)
                               + x.cleaningFee + x.amenitiesFee + x.extraFees

\* The response to the unfiltered query: 100 a night from 2024-01-01 to
\* 2024-01-04 with fees 50, 20, 10 is 380, and the row whose check-out lies
\* a day and a half before its check-in counts two nights.
C17_Witness ==
    \E r \in Slots :
        /\ AnsweredFromSample(req[r]) /\ req[r].in.query = EmptyQuery
        /\ req[r].res.items[1].basePrice = 100
        /\ req[r].res.items[1].checkInDate = "2024-01-01"
        /\ req[r].res.items[1].checkOutDate = "2024-01-04"
        /\ req[r].res.items[1].totalPrice = 380
        /\ req[r].res.items[2].checkInDate = "2024-01-10"
        /\ req[r].res.items[2].checkOutDate = "2024-01-08T12:00"
        /\ req[r].res.items[2].totalPrice = 80 * 2 + 30 + 0 + 5

\* C18 Pagination: with T reservations passing the filters, limit > 0 and
\* offset >= 0 (absent or non-numeric: 10 and 0), the response holds the
\* max(0, min(limit, T - offset)) filtered reservations from position
\* offset on, meta.total = T and meta.hasMore = (offset + limit < T).
C18_Pagination ==
    \A r \in Slots :
        AnsweredFromSample(req[r]) =>
        LET q      == req[r].in.query
            all    == filterReservations(
                          [i \in 1..Len(SampleReservations) |->
                              ToApiReservation(SampleReservations[i],
                                               calculateNights(SampleReservations[i].checkIn,
                                                               SampleReservations[i].checkOut))], q)
            T      == Len(all)
            limit  == QueryInt(q.limit, 10)
            offset == QueryInt(q.offset, 0)
            n      == Max(0, Min(limit, T - offset))
        IN  (limit > 0 /\ offset >= 0) =>
            /\ Len(req[r].res.items) = n
            /\ \A i \in 1..n : req[r].res.items[i] = all[offset + i]
            /\ req[r].res.meta.total = T
            /\ req[r].res.meta.limit = limit
            /\ req[r].res.meta.offset = offset
            /\ req[r].res.meta.hasMore = (offset + limit < T)

\* Four reservations, limit 2, offset 2: the last two, ending exactly at
\* the last one, with hasMore false.
C18_Witness ==
    \E r \in Slots :
        /\ AnsweredFromSample(req[r])
        /\ req[r].in.query.limit = "2" /\ req[r].in.query.offset = "2"
        /\ req[r].res.meta.total = 4
        /\ Len(req[r].res.items) = 2
        /\ req[r].res.items[1].id = "r3" /\ req[r].res.items[2].id = "r4"
        /\ ~req[r].res.meta.hasMore

VendorBacked(in) ==
    in.route \in {"listings", "listingById", "reservations", "reservationById",
                  "calendar", "report"}
Outputs(q) == (IF q.res # NoResponse THEN 1 ELSE 0) + (IF q.fwd # NoError THEN 1 ELSE 0)

\* C20 Handler state machine: a request to a vendor-backed handler goes
\* from received to the vendor attempt (unless validation ends it), and
\* from there to success or to the fallback; the fallback runs only in
\* the step in which the vendor attempt fails, never after a success; a
\* request in flight has no response and no forwarded error, and a
\* finished one has exactly one of the two.
C20_HandlerStateMachine ==
    /\ [](\A r \in Slots : VendorBacked(req[r].in) =>
             /\ req[r].pc \in {"exchanging", "sent", "done"}
             /\ req[r].pc \in {"exchanging", "sent"} =>
                   (Outputs(req[r]) = 0 /\ ~req[r].fallback /\ req[r].err = NoError)
             /\ req[r].pc = "done" => Outputs(req[r]) = 1
             /\ (req[r].pc = "done" /\ ~FailsValidation(req[r].in)) =>
                   req[r].nExch + req[r].nSend >= 1
             /\ req[r].fallback =>
                   (req[r].err # NoError /\ req[r].vendor.kind # "ok")
             /\ req[r].vendor.kind = "ok" =>
                   (~req[r].fallback /\ req[r].res.kind = "vendor" /\ req[r].fwd = NoError))
    /\ [][\A r \in Slots :
            /\ (req[r].pc = "exchanging" /\ req'[r] # req[r])
               => req'[r].pc \in {"sent", "done"}
            /\ (req[r].pc = "sent" /\ req'[r] # req[r]) => req'[r].pc = "done"
            /\ (VendorBacked(req'[r].in) /\ req'[r].fallback /\ req'[r] # req[r])
               => (req[r].pc \in {"exchanging", "sent"} /\ req'[r].err # NoError)]_vars

\* A reservations request whose vendor call was answered 503 and whose
\* fallback answered 200 from the sample: one response, nothing forwarded.
C20_Witness ==
    \E r \in Slots :
        /\ req[r].pc = "done" /\ req[r].in.route = "reservations"
        /\ req[r].nExch = 1 /\ req[r].nSend = 1
        /\ req[r].vendor.status = 503
        /\ req[r].fallback /\ req[r].res.status = 200 /\ req[r].fwd = NoError

\* C21 Token-cache frame: a step changes authToken or tokenExpires only if
\* it is an exchange answered with a token, which stores that token and its
\* expiry, or a vendor call answered 401, which clears both; every other
\* step (other vendor errors, the fallback, a validation rejection, the
\* health check, the webhook, a login, the clock) leaves both as they were.
C21_CacheFrame ==
    [][(authToken' # authToken \/ tokenExpires' # tokenExpires) =>
         \E r \in Slots :
            \/ /\ ExchangeAnswered(r) /\ req'[r].pc = "sent"
               /\ authToken' = lastGrant'.tok /\ authToken' # Null
            \/ /\ VendorAnswered(r) /\ req'[r].vendor.status = 401
               /\ req'[r].vendor.kind = "http"
               /\ authToken' = Null /\ tokenExpires' = 0]_vars

\* The health check answered 'valid' for the token an earlier request
\* cached, the token and its expiry still in place.
C21_Witness ==
    /\ calls = 2 /\ exchangesIssued = 1
    /\ authToken = 1 /\ tokenExpires = lastGrant.at + lastGrant.life * 1000 - 300000
    /\ \E r \in Slots :
         req[r].pc = "done" /\ req[r].in.route = "health" /\ req[r].res.kind = "valid"

\* C22 Central error handling: an error a handler forwards with next(error)
\* is answered by the central error middleware: status 500, its JSON
\* envelope with the fixed message, and the error as details in
\* development only.
C22_CentralErrorHandling ==
    \A r \in Slots :
        (req[r].pc = "done" /\ req[r].fwd # NoError) =>
        /\ req[r].errRes.via = "errorMiddleware"
        /\ req[r].errRes.status = 500
        /\ req[r].errRes.message.text = "An unexpected server error occurred"
        /\ req[r].errRes.details # NoError => nodeEnv = "development"

\* C25 By-id fallback: a listing-by-id or reservation-by-id request whose
\* vendor call failed, with the sample data loading, is answered 200 with the
\* sample record of that id (a reservation with its derived totalPrice) or
\* 404 when no sample record has the id; the vendor error is not forwarded.
C25_ByIdFallback ==
    \A r \in Slots :
        (req[r].pc = "done" /\ req[r].in.route \in {"listingById", "reservationById"}
           /\ req[r].err # NoError /\ sampleLoads) =>
        LET sample == IF req[r].in.route = "listingById" THEN SampleProperties
                      ELSE SampleReservations
            found == Find(sample, req[r].in.id)
        IN  /\ req[r].fwd = NoError
            /\ found = << >> => req[r].res.status = 404
            /\ found # << >> =>
                  /\ req[r].res.status = 200
                  /\ Len(req[r].res.items) = 1
                  /\ req[r].res.items[1].id = req[r].in.id
                  /\ req[r].in.route = "reservationById" =>
                        req[r].res.items[1].totalPrice =
                            Head(found).pricePerNight
                              * NightsBetween(Head(found).checkIn, Head(found).checkOut)
                            + Head(found).cleaningFee + Head(found).amenities
                            + Head(found).extraFees

\* C27 Stale 401: a vendor call sent with token T1 and answered 401 while
\* the cache holds a different token T2 leaves T2 and its expiry in the
\* cache; a 401 changes the cache only when the cache still holds the token
\* the failing request was sent with.
C27_StaleUnauthorized ==
    [][\A r \in Slots :
         (VendorAnswered(r) /\ req'[r].vendor.status = 401) =>
         /\ (authToken # Null /\ authToken # req[r].tok) =>
               (authToken' = authToken /\ tokenExpires' = tokenExpires)
         /\ (authToken' # authToken) => authToken = req[r].tok]_vars

\* C28 Cache pair consistency: in every reachable state the cache is
\* either cleared (null, 0) or holds the token of one successful exchange
\* together with the expiry computed from that same exchange's response;
\* never the token of one exchange with the expiry of another, never a
\* non-zero expiry with a null token.
C28_CachePair ==
    \/ authToken = Null /\ tokenExpires = 0
    \/ /\ authToken # Null
       /\ authToken = lastGrant.tok
       /\ tokenExpires = ExpiryOf(lastGrant.at, lastGrant.life)

\* Two exchanges answered at different times with different lifetimes, the
\* first one's token still in use by its request: the cache holds the
\* second token with the second expiry.
C28_Witness ==
    /\ authToken = 2 /\ lastGrant.tok = 2
    /\ lastGrant.at > 0 /\ lastGrant.life = 600
    /\ tokenExpires = lastGrant.at + 600 * 1000 - 300000
    /\ \E r \in Slots : req[r].pc = "sent" /\ req[r].tok = 1

\* C29 Page bounds for all integers: for every integer limit and offset of
\* the query, zero and negative ones included, the page holds at most
\* meta.limit items, meta.limit is the integer the query gave (10 when it
\* gave none), a non-empty page has meta.hasMore true exactly when filtered
\* reservations follow its last item, and limit=0 yields meta.limit = 0 and
\* an empty page.
C29_PageBounds ==
    \A r \in Slots :
        AnsweredFromSample(req[r]) =>
        LET q     == req[r].in.query
            rows  == MatchingRows(q)
            items == req[r].res.items
            meta  == req[r].res.meta
            last  == CHOOSE i \in rows : SampleReservations[i].id = items[Len(items)].id
        IN  /\ Len(items) <= meta.limit
            /\ meta.limit = QueryInt(q.limit, 10)
            /\ items # << >> => (meta.hasMore <=> \E j \in rows : j > last)
            /\ q.limit = "0" => (meta.limit = 0 /\ items = << >>)

\* C24 Vendor-side user scoping: a vendor request that makeApiRequest sends
\* for an acting user carries exactly one userId parameter, the acting
\* user's id; a userId of the client's query string neither replaces nor
\* accompanies it.
C24_UserScoping ==
    \A r \in Slots :
        (req[r].in.route = "portalListings" /\ req[r].nSend >= 1 /\ req[r].user # << >>) =>
        SelectSeq(req[r].url, LAMBDA kv : kv[1] = "userId")
            = << <<"userId", ToString(Head(req[r].user).userId)>> >>

\* C30 Session tokens stay bound to their user: whatever users were created
\* and deleted since a session token was signed, the user authenticateToken
\* attaches for it is the user it was signed for.
C30_SessionBinding ==
    \A r \in Slots :
        req[r].user # << >> => Head(req[r].user).email = req[r].in.token.email

\* The defined API routes: method and path shape.
DefinedRoutes ==
    << [method |-> "GET",  path |-> <<"api", "listings">>,            name |-> "listings"],
       [method |-> "GET",  path |-> <<"api", "listings", ":id">>,     name |-> "listingById"],
       [method |-> "GET",  path |-> <<"api", "reservations">>,        name |-> "reservations"],
       [method |-> "GET",  path |-> <<"api", "reservations", ":id">>, name |-> "reservationById"],
       [method |-> "GET",  path |-> <<"api", "calendar">>,            name |-> "calendar"],
       [method |-> "POST", path |-> <<"api", "finance", "report", "consolidated">>,
        name |-> "report"] >>
DefinedFor(method, path) ==
    {i \in 1..Len(DefinedRoutes) : LayerMatches(DefinedRoutes[i], method, path)}

\* C23 Catch-all 404 only for unmatched routes: a request whose method and
\* path match a defined API route is handled by that route, and the
\* catch-all 404 handler answers only requests that match none; on the
\* router of index.js as on the app of server.js.
C23_CatchAllLast ==
    /\ \A r \in Slots :
          (req[r].pc # "idle" /\ req[r].in.path # << >>) =>
          LET defined == DefinedFor(req[r].in.method, req[r].in.path)
          IN  /\ \A i \in defined : req[r].layer = DefinedRoutes[i].name
              /\ req[r].layer = "apiNotFound" => defined = {}
    /\ \A h \in HttpRequests :
          LET defined == DefinedFor(h.method, h.path)
              layer   == Dispatch(ServerLayers, h.method, h.path)
          IN  /\ \A i \in defined : layer = DefinedRoutes[i].name
              /\ layer = "notFound" => defined = {}

\* C26 Fallback variants agree: a reservation that getReservationById's
\* fallback returns has the totalPrice that getReservations' fallback
\* returns for the reservation of the same id.
C26_FallbackVariantsAgree ==
    \A r, q \in Slots :
        (/\ req[r].pc = "done" /\ req[r].in.route = "getReservationById"
         /\ req[r].res.kind = "sampleReservation" /\ req[r].layer = "none"
         /\ req[q].pc = "done" /\ req[q].in.route = "getReservations"
         /\ req[q].res.kind = "sampleReservations") =>
        \A i \in 1..Len(req[q].res.items) :
            req[q].res.items[i].id = req[r].res.items[1].id =>
            req[q].res.items[i].totalPrice = req[r].res.items[1].totalPrice

====
